---------------------------- MODULE Spec2Model ----------------------------
(***************************************************************************)
(* Research idea aggregation engine: the provider adapters' retry loops,   *)
(* the provider fan-out, the pipeline orchestrator with its session state  *)
(* machine, the embedding client and the similarity engine.                *)
(*                                                                         *)
(*   SpecAdapter  one adapter call (callOpenRouter, callGemini, callGrok), *)
(*                stepped attempt by attempt                               *)
(*   Spec         one run of runResearchPipeline, with the fan-out's       *)
(*                adapters settling in any order and every repository or   *)
(*                embedding call free to fail                              *)
(*   SpecEmbed    one call of generateEmbeddings, batch by batch, followed *)
(*                by buildSimilarityMatrix; or one cosineSimilarity call   *)
(*   SpecSim      clusterIdeas, then deduplicateIdeas pair by pair, on any *)
(*                symmetric matrix and any confidence scores               *)
(***************************************************************************)
EXTENDS Integers, Sequences, FiniteSets, TLC

VARIABLES
    \* ---- one adapter call ----
    aKind,          \* which adapter's code runs: "openrouter", "hf", "xai"
    aKey,           \* config.huggingface.apiKey is set
    apc,            \* "idle", "inflight", "sleeping", "returned", "thrown"
    attempt,        \* the for-loop's counter
    trace,          \* one record per attempt started: [resp, waited]
    sleepMs,        \* the backoff timer running while apc = "sleeping"
    lastError,      \* the loop's lastError variable
    aOutcome,       \* how the call settled
    running,        \* attempts whose HTTP request is still running
    \* ---- one pipeline run ----
    registry,       \* which provider registry is configured
    pc,             \* the run's position in runResearchPipeline
    sessionId,      \* id returned by createSession (0: none yet)
    status,         \* research_sessions.status of the run's session
    statusLog,      \* every value the status column has held, in order
    settled,        \* per dispatched promise: "pending" or its outcome
    settledResults, \* what executeAllProviders returned (<<>>: not yet)
    successes,      \* partitionProviderResults(...).successes
    failures,       \* partitionProviderResults(...).failures
    cursor,         \* index of the running for-loop
    llmRows,        \* llm_responses rows
    ideaRows,       \* ideas rows
    hasDups,        \* dupUpdates.length > 0
    err,            \* the error caught / thrown by the run
    rejected,       \* the error runResearchPipeline rejected with
    ret,            \* the value returned by the run
    faults,         \* repository / embedding calls that failed in this run
    \* ---- one generateEmbeddings call, then the similarity matrix ----
    eTexts,         \* the texts passed in
    eBatchSize,     \* config.embedding.batchSize
    epc,            \* "idle", "batch", "returned", "thrown", "matrix", "simThrown"
    ePos,           \* the batch loop's i
    allEmbeddings,  \* the vectors collected so far; the value returned
    produced,       \* per text, the vector the backend produced for it
    outOfOrder,     \* some batch's items came back out of index order
    simMatrix,      \* what buildSimilarityMatrix returned
    cosArgs,        \* arguments of a direct cosineSimilarity call
    cosRet,         \* what that call returned
    eThrown,        \* the error generateEmbeddings threw: its code and details
    \* ---- one run of clusterIdeas and deduplicateIdeas ----
    sMatrix,        \* the similarity matrix (hundredths)
    sConf,          \* confidence_score per idea
    spc,            \* "start", "clustered", "scan", "done"
    clusterIds,     \* what clusterIdeas returned
    unionCalls,     \* the pairs clusterIdeas called uf.union for
    dCursor,        \* position of the scan in the pairs of the clusters
    isDuplicate,    \* deduplicateIdeas' three arrays
    duplicateOfIdx,
    similarityToDuplicate,
    skippedPairs,   \* pairs skipped because one idea was already flagged
    \* ---- the store, job attempts and API calls ----
    sessions,       \* research_sessions rows by id: [status, deleted, updatedAt]
    responses,      \* llm_responses rows by id: [session, status]
    ideas,          \* ideas rows by id: [session, response, title]
    deepenings,     \* deepening_sessions rows: [session, idea]
    jobSession,     \* job.data.metadata.sessionId, Null when absent
    inv,            \* runResearchPipeline invocations: [pc, sessionId, responseId, lock]
    wrote,          \* <<invocation, session id>> of every write an invocation made
    dCall,          \* the deepenIdea call
    listCall,       \* the listSessions call
    \* ---- one saveIdeas call ----
    tIdeas,         \* the ideas argument, by title
    tpc,            \* "idle", "connect", "begin", "insert", "commit", "rollback",
                    \* "returned", "thrown"
    tI,             \* the for-loop's i (from 1)
    insertedIds,    \* the callback's insertedIds
    tPending,       \* rows written by the open transaction
    tTable,         \* the committed rows of the ideas table, by id
    tBefore,        \* the ideas table when saveIdeas was called
    txState,        \* the connection's transaction: "none", "open", "aborted", "closed"
    checkedOut,     \* pool clients checked out
    tRet,           \* what saveIdeas returned
    tErr,           \* what saveIdeas threw
    tFailedAt,      \* the i of the INSERT that failed, 0 if none
    \* ---- one call of parseAndValidateLlmOutput, alone or in an adapter ----
    vRaw,           \* the raw text, as tokens
    vType,          \* 'research' or 'deepening'
    vpc,            \* "idle", "input", "returned", "hf", "hfRaw", "hfDone"
    vResult,        \* { valid, data, errors }
    vText,          \* length of the text the Hugging Face model generated
    vOutcome,       \* how the Hugging Face adapter's call settled
    \* ---- the data path of one run ----
    dResp,          \* per adapter of the registry, what its call will settle with
    dDone,          \* the adapters whose call has completed
    dSettled,       \* the results array of Promise.allSettled, filled as the
                    \* promises settle
    dLate,          \* some promise settled before one pushed ahead of it
    dpc,            \* "idle", "fanout", "similarity", "persist", "dupRefs",
                    \* "completed"
    allIdeas,       \* the flat idea list; an idea's index is originalIdx + 1
    dRows,          \* the ideas table
    dbIdMap,        \* originalIdx -> database id, filled group by group
    dGroup          \* the group of byResponse being saved

avars == <<aKind, aKey, apc, attempt, trace, sleepMs, lastError, aOutcome,
           running>>
pvars == <<registry, pc, sessionId, status, statusLog, settled, settledResults,
           successes, failures,
           cursor, llmRows, ideaRows, hasDups, err, rejected, ret, faults>>
evars == <<eTexts, eBatchSize, epc, ePos, allEmbeddings, produced, outOfOrder,
           simMatrix, cosArgs, cosRet, eThrown>>
svars == <<sMatrix, sConf, spc, clusterIds, unionCalls, dCursor, isDuplicate,
           duplicateOfIdx, similarityToDuplicate, skippedPairs>>
wvars == <<sessions, responses, ideas, deepenings, jobSession, inv, wrote,
           dCall, listCall>>
tvars == <<tIdeas, tpc, tI, insertedIds, tPending, tTable, tBefore, txState,
           checkedOut, tRet, tErr, tFailedAt>>
vvars == <<vRaw, vType, vpc, vResult, vText, vOutcome>>
dvars == <<dResp, dDone, dSettled, dLate, dpc, allIdeas, dRows, dbIdMap, dGroup>>
vars == <<avars, pvars, evars, svars, wvars, tvars, vvars, dvars>>

\* what an action of one part leaves alone: the variables of the other parts
notA == <<pvars, evars, svars, wvars, tvars, vvars, dvars>>
notP == <<avars, evars, svars, wvars, tvars, vvars, dvars>>
notE == <<avars, pvars, svars, wvars, tvars, vvars, dvars>>
notS == <<avars, pvars, evars, wvars, tvars, vvars, dvars>>
notW == <<avars, pvars, evars, svars, tvars, vvars, dvars>>
notT == <<avars, pvars, evars, svars, wvars, vvars, dvars>>
notV == <<avars, pvars, evars, svars, wvars, tvars, dvars>>
notD == <<avars, pvars, evars, svars, wvars, tvars, vvars>>

---------------------------------------------------------------------------
(* Bounds of the model *)

\* ideas a successful provider may return: 1..MaxIdeas (the schema allows 1..10)
MaxIdeas == 2

---------------------------------------------------------------------------
(* Provider adapters *)

\* maxRetries = 2 (default parameter of every adapter)
MaxRetriesThree == 2 + 1
MaxRetries == 2

\* Math.pow(2, attempt) * 1000
BackoffBaseMs == 1000

AdapterKinds == {"openrouter", "hf", "xai"}

\* What the backend does on one attempt:
\*   ok       answers with text that parses and validates
\*   badjson  answers with text that fails JSON decoding or the schema
\*   timeout  the attempt's timer fires first
\*   h429 / h500 / h400   answers with that HTTP status
\*   neterr   the transport fails with no HTTP status
Resps == {"ok", "badjson", "timeout", "h429", "h500", "h400", "neterr"}

RECURSIVE Pow2(_)
Pow2(k) == IF k = 0 THEN 1 ELSE 2 * Pow2(k - 1)

Backoff(k) == Pow2(k) * BackoffBaseMs

Retryable(resp) == resp \in {"h429", "h500"}

NoOutcome == [status |-> "pending", code |-> "none"]
Fulfilled == [status |-> "fulfilled", code |-> "none"]
Rejected(code) == [status |-> "rejected", code |-> code]

\* class ParseError: the only error with a rawResponse field (the provider's
\* text); its message holds the validator's error list. A ProviderError built
\* from a caught error keeps that error's message only.
CarriesRawResponse(out) == out.status = "rejected" /\ out.code = "PARSE_ERROR"

\* The loop's condition: attempt <= maxRetries
LoopContinues(k) == k <= MaxRetries

\* callOpenRouter: the body of one iteration. The answer is validated inside
\* the try, so a ParseError lands in the catch as well.
OpenRouterStep(k, resp) ==
    IF resp = "ok" THEN [act |-> "settle", backoff |-> 0, out |-> Fulfilled]
    ELSE IF resp = "timeout" THEN
        IF k < MaxRetries THEN [act |-> "retry", backoff |-> 0, out |-> NoOutcome]
        ELSE [act |-> "settle", backoff |-> 0, out |-> Rejected("PROVIDER_TIMEOUT")]
    ELSE IF Retryable(resp) /\ k < MaxRetries THEN
        [act |-> "retry", backoff |-> Backoff(k), out |-> NoOutcome]
    ELSE IF resp = "badjson" /\ k < MaxRetries THEN
        [act |-> "retry", backoff |-> 0, out |-> NoOutcome]
    ELSE [act |-> "settle", backoff |-> 0, out |-> Rejected("PROVIDER_ERROR")]

\* callGeminiRaw / callGrokRaw over Hugging Face, then callGemini / callGrok:
\* any answer with generated text is wrapped into {ideas:[{title, description}]},
\* which the research schema (seven required fields) rejects.
HfStep(k, resp) ==
    IF resp \in {"ok", "badjson"} THEN
        [act |-> "settle", backoff |-> 0, out |-> Rejected("PARSE_ERROR")]
    ELSE IF resp = "timeout" THEN
        IF k < MaxRetries THEN [act |-> "retry", backoff |-> 0, out |-> NoOutcome]
        ELSE [act |-> "settle", backoff |-> 0, out |-> Rejected("PROVIDER_TIMEOUT")]
    ELSE IF k < MaxRetries THEN
        [act |-> "retry", backoff |-> Backoff(k), out |-> NoOutcome]
    ELSE [act |-> "settle", backoff |-> 0, out |-> Rejected("PROVIDER_ERROR")]

\* callGrokRaw over the xAI endpoint, then callGrok's validation of the text.
XaiStep(k, resp) ==
    IF resp = "ok" THEN [act |-> "settle", backoff |-> 0, out |-> Fulfilled]
    ELSE IF resp = "badjson" THEN
        [act |-> "settle", backoff |-> 0, out |-> Rejected("PARSE_ERROR")]
    ELSE IF resp = "timeout" THEN
        [act |-> "settle", backoff |-> 0, out |-> Rejected("PROVIDER_TIMEOUT")]
    ELSE IF Retryable(resp) /\ k < MaxRetries THEN
        [act |-> "retry", backoff |-> Backoff(k), out |-> NoOutcome]
    ELSE [act |-> "settle", backoff |-> 0, out |-> Rejected("PROVIDER_ERROR")]

AdapterStep(kind, k, resp) ==
    CASE kind = "openrouter" -> OpenRouterStep(k, resp)
      [] kind = "hf"         -> HfStep(k, resp)
      [] OTHER               -> XaiStep(k, resp)

\* `throw lastError` after the loop: lastError is only assigned on the
\* backoff path, so it may still be undefined.
ThrowLastError(le) == Rejected(IF le = "undefined" THEN "UNDEFINED" ELSE "UNKNOWN")

\* The attempt's timer is wired to the request: callOpenRouter and the xAI
\* callGrokRaw pass an AbortController's signal and abort it when the timer
\* fires; the Hugging Face adapters race the fetch against a timer promise and
\* give the fetch no signal.
AbortsOnTimeout(kind) == kind \in {"openrouter", "xai"}

\* The requests still running once attempt k has ended with `resp`: an answer
\* or a transport failure ends the request; a timeout ends it only by abort.
StillRunning(kind, k, resp, rs) ==
    IF resp = "timeout" /\ ~AbortsOnTimeout(kind) THEN rs ELSE rs \ {k}

AdapterInit ==
    /\ aKind \in AdapterKinds
    /\ aKey \in BOOLEAN
    /\ apc = "idle"
    /\ attempt = 0
    /\ trace = <<>>
    /\ sleepMs = 0
    /\ lastError = "undefined"
    /\ aOutcome = NoOutcome
    /\ running = {}

\* Entering the call: the Hugging Face adapters throw before the loop when the
\* API key is missing; otherwise the first iteration issues its request.
CallAdapter ==
    /\ apc = "idle"
    /\ IF aKind = "hf" /\ ~aKey
       THEN /\ apc' = "thrown"
            /\ aOutcome' = Rejected("UNKNOWN")
            /\ UNCHANGED <<trace, running>>
       ELSE /\ apc' = "inflight"
            /\ trace' = <<[resp |-> "none", waited |-> 0]>>
            /\ running' = {0}
            /\ UNCHANGED aOutcome
    /\ UNCHANGED <<aKind, aKey, attempt, sleepMs, lastError>>
    /\ UNCHANGED notA

\* The loop's step to iteration k after `continue`: either the next request
\* is issued (after `waited` ms of backoff) or the loop is left and
\* lastError thrown. `rs` are the requests still running at that point.
NextIteration(k, waited, le, tr, rs) ==
    /\ attempt' = k
    /\ IF LoopContinues(k)
       THEN /\ apc' = "inflight"
            /\ trace' = Append(tr, [resp |-> "none", waited |-> waited])
            /\ running' = rs \cup {k}
            /\ UNCHANGED aOutcome
       ELSE /\ apc' = "thrown"
            /\ aOutcome' = ThrowLastError(le)
            /\ trace' = tr
            /\ running' = rs

\* The in-flight attempt ends with `resp`; the try/catch decides.
AttemptEnds(resp) ==
    /\ apc = "inflight"
    /\ LET d == AdapterStep(aKind, attempt, resp)
           logged == [trace EXCEPT ![Len(trace)].resp = resp]
           rs == StillRunning(aKind, attempt, resp, running)
       IN  CASE d.act = "settle" ->
                 /\ apc' = IF d.out.status = "fulfilled" THEN "returned" ELSE "thrown"
                 /\ aOutcome' = d.out
                 /\ trace' = logged
                 /\ running' = rs
                 /\ UNCHANGED <<attempt, sleepMs, lastError>>
             [] d.act = "retry" /\ d.backoff > 0 ->
                 /\ apc' = "sleeping"
                 /\ sleepMs' = d.backoff
                 /\ trace' = logged
                 /\ running' = rs
                 /\ UNCHANGED <<attempt, lastError, aOutcome>>
             [] OTHER ->
                 /\ NextIteration(attempt + 1, 0, lastError, logged, rs)
                 /\ UNCHANGED <<sleepMs, lastError>>
    /\ UNCHANGED <<aKind, aKey>>
    /\ UNCHANGED notA

\* The backoff timer fires: lastError = err; continue.
BackoffElapsed ==
    /\ apc = "sleeping"
    /\ lastError' = trace[Len(trace)].resp
    /\ sleepMs' = 0
    /\ NextIteration(attempt + 1, sleepMs, trace[Len(trace)].resp, trace, running)
    /\ UNCHANGED <<aKind, aKey>>
    /\ UNCHANGED notA

\* A request no attempt waits for any more runs to its end in the background.
RequestCompletes(k) ==
    /\ k \in running
    /\ ~(apc = "inflight" /\ k = attempt)
    /\ running' = running \ {k}
    /\ UNCHANGED <<aKind, aKey, apc, attempt, trace, sleepMs, lastError, aOutcome>>
    /\ UNCHANGED notA

\* The whole call as a function of what the backend does on each attempt
\* (resps[k + 1] on iteration k): the outcome the fan-out sees.
RECURSIVE AdapterRun(_, _, _, _)
AdapterRun(kind, k, le, resps) ==
    IF ~LoopContinues(k) THEN ThrowLastError(le)
    ELSE LET d == AdapterStep(kind, k, resps[k + 1])
         IN  IF d.act = "settle" THEN d.out
             ELSE AdapterRun(kind, k + 1,
                             IF d.backoff > 0 THEN resps[k + 1] ELSE le, resps)

\* Every way a call of the adapter can settle, over all backend behaviours.
AdapterOutcomes(kind) ==
    {AdapterRun(kind, 0, "undefined", resps) : resps \in [1..(MaxRetries + 1) -> Resps]}

OpenRouterOutcomes == AdapterOutcomes("openrouter")

\* callGemini / callGrok with the API key set
HfOutcomes == AdapterOutcomes("hf")

\* if (!config.huggingface.apiKey) throw new Error(...)
HfMissingKey == {Rejected("UNKNOWN")}

\* callGrok over the xAI endpoint
XaiOutcomes == AdapterOutcomes("xai")

---------------------------------------------------------------------------
(* Provider fan-out *)

\* TEMP_FAST_MODE: only config.openRouter.defaultModel
FastProviders == <<"deepseek/deepseek-chat">>

\* grok, gemini, then config.openRouter.researchModels
HybridProviders ==
    <<"grok", "gemini", "deepseek/deepseek-chat", "anthropic/claude-3-5-sonnet",
      "perplexity/sonar">>

\* Object.keys(PROVIDERS) of the three-provider registry
LegacyProviders == <<"openai", "anthropic", "gemini">>

Registries == {"fast", "hybrid", "legacy"}

Providers(reg) ==
    CASE reg = "fast"   -> FastProviders
      [] reg = "hybrid" -> HybridProviders
      [] OTHER          -> LegacyProviders

\* callOpenAI and callClaude are not part of the sources: by the adapter
\* contract a call ends with a result or with one of the provider errors.
OpaqueOutcomes ==
    {Fulfilled, Rejected("PROVIDER_TIMEOUT"), Rejected("PROVIDER_ERROR"),
     Rejected("PARSE_ERROR")}

\* The outcomes the promise pushed for provider `name` can settle with. The
\* sources hold two grok adapters (Hugging Face and xAI); either may be the
\* one the registry requires.
PromiseOutcomes(name, key) ==
    CASE name = "gemini" -> IF key THEN HfOutcomes ELSE HfMissingKey
      [] name = "grok"   -> (IF key THEN HfOutcomes ELSE HfMissingKey) \cup XaiOutcomes
      [] name \in {"openai", "anthropic"} -> OpaqueOutcomes
      [] OTHER           -> OpenRouterOutcomes

Pending == [provider |-> "", status |-> "pending", code |-> "none", nIdeas |-> 0]

\* .then(result => ({provider, status: 'fulfilled', result}))
\* .catch(error => ({provider, status: 'rejected', error}))
Normalize(name, out, n) ==
    [provider |-> name, status |-> out.status, code |-> out.code,
     nIdeas |-> IF out.status = "fulfilled" THEN n ELSE 0]

\* await Promise.allSettled(promises) resumes when none is pending
AnySettled(ps) == \E i \in DOMAIN ps : ps[i].status # "pending"
AllSettled(ps) == \A i \in DOMAIN ps : ps[i].status # "pending"

RECURSIVE SelectSeqBy(_, _, _)
SelectSeqBy(ps, i, want) ==
    IF i > Len(ps) THEN <<>>
    ELSE (IF (ps[i].status = "fulfilled") = want THEN <<ps[i]>> ELSE <<>>)
             \o SelectSeqBy(ps, i + 1, want)

\* settled.map(s => s.status === 'fulfilled' ? s.value : s.reason): every
\* promise resolved to its normalised outcome, so the map keeps all of them
UnwrapDropRejected(ps) == SelectSeqBy(ps, 1, TRUE)
Unwrap(ps) == ps

\* partitionProviderResults: item.status === 'fulfilled' && item.result
PartitionSuccessesAll(ps) == ps
PartitionSuccesses(ps) == SelectSeqBy(ps, 1, TRUE)

\* failures.push({provider, error: message || 'Unknown error', code || 'UNKNOWN'})
PartitionFailuresNone(ps) == <<>>
PartitionFailures(ps) == SelectSeqBy(ps, 1, FALSE)

---------------------------------------------------------------------------
(* Session repository and pipeline orchestrator *)

NoRet == [status |-> "none", providersSucceeded |-> 0, providersFailed |-> 0,
          totalIdeasGenerated |-> 0, providerStatus |-> <<>>]

PipelineCommonInit ==
    /\ pc = "start"
    /\ sessionId = 0
    /\ status = "none"
    /\ statusLog = <<>>
    /\ settled = <<>>
    /\ settledResults = <<>>
    /\ successes = <<>>
    /\ failures = <<>>
    /\ cursor = 0
    /\ llmRows = <<>>
    /\ ideaRows = <<>>
    /\ hasDups = FALSE
    /\ err = "none"
    /\ rejected = "none"
    /\ ret = NoRet
    /\ faults = {}

PipelineInit ==
    /\ registry \in Registries
    /\ PipelineCommonInit

PipelineIdle ==
    /\ registry = "fast"
    /\ PipelineCommonInit

\* A repository call either takes effect or fails without effect.
Fails(site) == faults' = faults \cup {site}

\* updateSessionStatus: UPDATE research_sessions SET status = $1 WHERE id = $2
UpdateSessionStatus(to) ==
    /\ status' = to
    /\ statusLog' = Append(statusLog, to)

\* The catch block is entered with error code `code`.
Throw(code) ==
    /\ err' = code
    /\ pc' = "catch"

\* Step 1: repo.createSession (INSERT ... 'pending')
CreateSession ==
    /\ pc = "start"
    /\ \E ok \in BOOLEAN :
         IF ok
         THEN /\ sessionId' = 1
              /\ status' = "pending"
              /\ statusLog' = <<"pending">>
              /\ pc' = "created"
              /\ UNCHANGED <<err, faults, rejected>>
         ELSE /\ err' = "DATABASE_ERROR"
              /\ rejected' = "DATABASE_ERROR"
              /\ pc' = "thrown"
              /\ Fails("createSession")
              /\ UNCHANGED <<sessionId, status, statusLog>>
    /\ UNCHANGED <<registry, settled, settledResults, successes, failures, cursor,
                   llmRows, ideaRows, hasDups, ret>>
    /\ UNCHANGED notP

\* repo.updateSessionStatus(sessionId, 'processing'), before the try block
MarkProcessing ==
    /\ pc = "created"
    /\ \E ok \in BOOLEAN :
         IF ok
         THEN /\ UpdateSessionStatus("processing")
              /\ pc' = "dispatch"
              /\ UNCHANGED <<err, faults, rejected>>
         ELSE /\ err' = "DATABASE_ERROR"
              /\ rejected' = "DATABASE_ERROR"
              /\ pc' = "thrown"
              /\ Fails("markProcessing")
              /\ UNCHANGED <<status, statusLog>>
    /\ UNCHANGED <<registry, sessionId, settled, settledResults, successes, failures,
                   cursor, llmRows, ideaRows, hasDups, ret>>
    /\ UNCHANGED notP

\* executeAllProviders up to its await: one promise pushed per provider
Dispatch ==
    /\ pc = "dispatch"
    /\ settled' = [i \in 1..Len(Providers(registry)) |-> Pending]
    /\ pc' = "fanout"
    /\ UNCHANGED <<registry, sessionId, status, statusLog, settledResults, successes,
                   failures, cursor, llmRows, ideaRows, hasDups, err, ret, faults>>
    /\ UNCHANGED rejected
    /\ UNCHANGED notP

\* One adapter's promise settles; its .then/.catch normalises the outcome.
Settle(i) ==
    /\ pc = "fanout"
    /\ settled[i].status = "pending"
    /\ \E out \in PromiseOutcomes(Providers(registry)[i], aKey), n \in 1..MaxIdeas :
         settled' = [settled EXCEPT ![i] = Normalize(Providers(registry)[i], out, n)]
    /\ UNCHANGED <<registry, pc, sessionId, status, statusLog, settledResults,
                   successes, failures, cursor, llmRows, ideaRows, hasDups, err, ret,
                   faults>>
    /\ UNCHANGED rejected
    /\ UNCHANGED notP

\* if (successes.length === 0)
NoSuccessesNever(ss) == Len(ss) < 0
NoSuccesses(ss) == Len(ss) = 0

\* The for-loops over successes and failures, the embedding call and the
\* loop over the groups are skipped when their list is empty.
AfterFanout(ss, fs) ==
    IF NoSuccesses(ss) THEN "noSuccess"
    ELSE IF Len(ss) > 0 THEN "saveResponses"
    ELSE IF Len(fs) > 0 THEN "saveFailures"
    ELSE "embed"

\* Promise.allSettled resolves; executeAllProviders returns its unwrapped
\* outcomes and they are partitioned.
FanoutReturns ==
    /\ pc = "fanout"
    /\ AllSettled(settled)
    /\ LET outs == Unwrap(settled)
       IN  /\ settledResults' = outs
           /\ successes' = PartitionSuccesses(outs)
           /\ failures' = PartitionFailures(outs)
           /\ pc' = AfterFanout(PartitionSuccesses(outs), PartitionFailures(outs))
    /\ cursor' = 1
    /\ UNCHANGED <<registry, sessionId, status, statusLog, settled, llmRows, ideaRows,
                   hasDups, err, ret, faults>>
    /\ UNCHANGED rejected
    /\ UNCHANGED notP

\* successes.length === 0: flip to failed, throw ALL_PROVIDERS_FAILED
NoSuccess ==
    /\ pc = "noSuccess"
    /\ \E ok \in BOOLEAN :
         IF ok
         THEN /\ UpdateSessionStatus("failed")
              /\ Throw("ALL_PROVIDERS_FAILED")
              /\ UNCHANGED faults
         ELSE /\ Throw("DATABASE_ERROR")
              /\ Fails("markFailed")
              /\ UNCHANGED <<status, statusLog>>
    /\ UNCHANGED <<registry, sessionId, settled, settledResults, successes, failures,
                   cursor, llmRows, ideaRows, hasDups, ret>>
    /\ UNCHANGED rejected
    /\ UNCHANGED notP

\* Step 3a: repo.saveLlmResponse for successes[cursor]
SaveLlmResponse ==
    /\ pc = "saveResponses"
    /\ \E ok \in BOOLEAN :
         IF ok
         THEN /\ llmRows' = Append(llmRows,
                     [session |-> sessionId, provider |-> successes[cursor].provider,
                      status |-> "success", error |-> "none"])
              /\ IF cursor < Len(successes)
                 THEN /\ cursor' = cursor + 1
                      /\ pc' = "saveResponses"
                 ELSE /\ cursor' = 1
                      /\ pc' = IF Len(failures) > 0 THEN "saveFailures" ELSE "embed"
              /\ UNCHANGED <<err, faults>>
         ELSE /\ Throw("DATABASE_ERROR")
              /\ Fails("saveLlmResponse")
              /\ UNCHANGED <<llmRows, cursor>>
    /\ UNCHANGED <<registry, sessionId, status, statusLog, settled, settledResults,
                   successes, failures, ideaRows, hasDups, ret>>
    /\ UNCHANGED rejected
    /\ UNCHANGED notP

\* Step 3b: repo.saveLlmFailure for failures[cursor]; a failed insert is logged
\* and swallowed. The row's error_message is the provider error's message,
\* one per error code.
SaveLlmFailure ==
    /\ pc = "saveFailures"
    /\ \E ok \in BOOLEAN :
         IF ok
         THEN /\ llmRows' = Append(llmRows,
                     [session |-> sessionId, provider |-> failures[cursor].provider,
                      status |-> "failed", error |-> failures[cursor].code])
              /\ UNCHANGED faults
         ELSE /\ Fails("saveLlmFailure")
              /\ UNCHANGED llmRows
    /\ IF cursor < Len(failures)
       THEN /\ cursor' = cursor + 1
            /\ pc' = "saveFailures"
       ELSE /\ cursor' = 1
            /\ pc' = "embed"
    /\ UNCHANGED <<registry, sessionId, status, statusLog, settled, settledResults,
                   successes, failures, ideaRows, hasDups, err, ret>>
    /\ UNCHANGED rejected
    /\ UNCHANGED notP

RECURSIVE SumIdeas(_, _)
SumIdeas(ss, i) == IF i > Len(ss) THEN 0 ELSE ss[i].nIdeas + SumIdeas(ss, i + 1)

\* allIdeas.length
TotalIdeas(ss) == SumIdeas(ss, 1)

\* a failed embedding call is logged and the run goes on
StepAfterEmbedSwallowed(ok, nSuccesses) ==
    IF nSuccesses > 0 THEN "saveIdeas" ELSE "markCompleted"

\* where the run goes after await generateEmbeddings(...) and the similarity
\* pipeline: on to step 6, or into the catch block when the call threw
StepAfterEmbed(ok, nSuccesses) ==
    IF ok THEN (IF nSuccesses > 0 THEN "saveIdeas" ELSE "markCompleted")
    ELSE "catch"

\* Steps 4-5: generateEmbeddings in one call, then runSimilarityPipeline
\* (synchronous); duplicates need two ideas.
EmbedAndCluster ==
    /\ pc = "embed"
    /\ \E ok \in BOOLEAN :
         /\ pc' = StepAfterEmbed(ok, Len(successes))
         /\ IF ok
            THEN /\ hasDups' \in (IF TotalIdeas(successes) >= 2 THEN BOOLEAN ELSE {FALSE})
                 /\ UNCHANGED <<err, faults>>
            ELSE /\ err' = "EMBEDDING_ERROR"
                 /\ Fails("generateEmbeddings")
                 /\ UNCHANGED hasDups
    /\ cursor' = 1
    /\ UNCHANGED <<registry, sessionId, status, statusLog, settled, settledResults,
                   successes, failures, llmRows, ideaRows, ret>>
    /\ UNCHANGED rejected
    /\ UNCHANGED notP

\* The llm_responses id of successes[g]: rows are saved in that order.
LlmResponseId(g) == g

RECURSIVE IdeaRowsOf(_, _, _)
IdeaRowsOf(g, k, base) ==
    IF k > successes[g].nIdeas THEN <<>>
    ELSE <<[session |-> sessionId, llmResponseId |-> LlmResponseId(g),
            provider |-> successes[g].provider, originalIdx |-> base + k - 1]>>
             \o IdeaRowsOf(g, k + 1, base)

\* Step 6: repo.saveIdeas for the group of successes[cursor], one transaction
SaveIdeas ==
    /\ pc = "saveIdeas"
    /\ \E ok \in BOOLEAN :
         IF ok
         THEN /\ ideaRows' = ideaRows \o IdeaRowsOf(cursor, 1, Len(ideaRows))
              /\ IF cursor < Len(successes)
                 THEN /\ cursor' = cursor + 1
                      /\ pc' = "saveIdeas"
                 ELSE /\ cursor' = 1
                      /\ pc' = IF hasDups THEN "dupRefs" ELSE "markCompleted"
              /\ UNCHANGED <<err, faults>>
         ELSE /\ Throw("DB_DRIVER_ERROR")
              /\ Fails("saveIdeas")
              /\ UNCHANGED <<ideaRows, cursor>>
    /\ UNCHANGED <<registry, sessionId, status, statusLog, settled, settledResults,
                   successes, failures, llmRows, hasDups, ret>>
    /\ UNCHANGED rejected
    /\ UNCHANGED notP

\* Step 7: repo.updateDuplicateReferences(dupUpdates)
UpdateDuplicateReferences ==
    /\ pc = "dupRefs"
    /\ \E ok \in BOOLEAN :
         IF ok
         THEN /\ pc' = "markCompleted"
              /\ UNCHANGED <<err, faults>>
         ELSE /\ Throw("DATABASE_ERROR")
              /\ Fails("updateDuplicateReferences")
    /\ UNCHANGED <<registry, sessionId, status, statusLog, settled, settledResults,
                   successes, failures, cursor, llmRows, ideaRows, hasDups, ret>>
    /\ UNCHANGED rejected
    /\ UNCHANGED notP

\* Step 8: repo.updateSessionStatus(sessionId, 'completed')
MarkCompleted ==
    /\ pc = "markCompleted"
    /\ \E ok \in BOOLEAN :
         IF ok
         THEN /\ UpdateSessionStatus("completed")
              /\ pc' = "fetchUnique"
              /\ UNCHANGED <<err, faults>>
         ELSE /\ Throw("DATABASE_ERROR")
              /\ Fails("markCompleted")
              /\ UNCHANGED <<status, statusLog>>
    /\ UNCHANGED <<registry, sessionId, settled, settledResults, successes, failures,
                   cursor, llmRows, ideaRows, hasDups, ret>>
    /\ UNCHANGED rejected
    /\ UNCHANGED notP

ProviderStatusOf(ss, fs) ==
    [i \in 1..(Len(ss) + Len(fs)) |->
        IF i <= Len(ss) THEN [provider |-> ss[i].provider, status |-> "success"]
        ELSE [provider |-> fs[i - Len(ss)].provider, status |-> "failed"]]

\* Step 9: repo.getSessionIdeas(sessionId, true), then the result is returned
FetchUniqueAndReturn ==
    /\ pc = "fetchUnique"
    /\ \E ok \in BOOLEAN :
         IF ok
         THEN /\ ret' = [status |-> "completed",
                         providersSucceeded |-> Len(successes),
                         providersFailed |-> Len(failures),
                         totalIdeasGenerated |-> TotalIdeas(successes),
                         providerStatus |-> ProviderStatusOf(successes, failures)]
              /\ pc' = "returned"
              /\ UNCHANGED <<err, faults>>
         ELSE /\ Throw("DATABASE_ERROR")
              /\ Fails("getSessionIdeas")
              /\ UNCHANGED ret
    /\ UNCHANGED <<registry, sessionId, status, statusLog, settled, settledResults,
                   successes, failures, cursor, llmRows, ideaRows, hasDups>>
    /\ UNCHANGED rejected
    /\ UNCHANGED notP

\* a catch block that lets the error of its own status write escape
RethrownFlipError(caught, flipErr) == IF flipErr # "none" THEN flipErr ELSE caught

\* throw err: the error the catch block was entered with, whatever became
\* of its own status write (its error is logged only)
Rethrown(caught, flipErr) == caught

\* catch (err): flip to failed unless the error is ALL_PROVIDERS_FAILED (a
\* failure of that flip is logged only), then rethrow.
CatchAndRethrow ==
    /\ pc = "catch"
    /\ IF err # "ALL_PROVIDERS_FAILED"
       THEN \E ok \in BOOLEAN :
              IF ok
              THEN /\ UpdateSessionStatus("failed")
                   /\ rejected' = Rethrown(err, "none")
                   /\ UNCHANGED faults
              ELSE /\ Fails("markFailedInCatch")
                   /\ rejected' = Rethrown(err, "DATABASE_ERROR")
                   /\ UNCHANGED <<status, statusLog>>
       ELSE /\ rejected' = Rethrown(err, "none")
            /\ UNCHANGED <<status, statusLog, faults>>
    /\ pc' = "thrown"
    /\ UNCHANGED <<registry, sessionId, settled, settledResults, successes, failures,
                   cursor, llmRows, ideaRows, hasDups, err, ret>>
    /\ UNCHANGED notP

---------------------------------------------------------------------------
(* Embedding client and cosine similarity *)

\* an embed call is given 0..MaxTexts texts
MaxTexts == 3

\* config.embedding.batchSize ranges over 1..MaxBatchSize
MaxBatchSize == 3

\* config.embedding.dimensions (EMBEDDING_DIMENSIONS)
EmbeddingDimensions == 2

Texts == {"t1", "t2"}

TextLists == UNION {[1..n -> Texts] : n \in 0..MaxTexts}

\* The vectors the backend may answer with: the zero vector, vectors of the
\* configured dimension and one of another dimension.
Vecs == {<<0, 0>>, <<1, 0>>, <<1, 1>>, <<-1, 1>>, <<1, 0, 0>>}

Min(a, b) == IF a < b THEN a ELSE b

\* texts.slice(i, i + batchSize).length
BatchLen(n, i, size) == Min(size, n - i)

\* the batches are numbered from 0
BatchNumFromZero(i, size) == i \div size

\* const batchNum = Math.floor(i / batchSize) + 1
BatchNum(i, size) == (i \div size) + 1

\* const totalBatches = Math.ceil(texts.length / batchSize)
TotalBatches(n, size) == (n + size - 1) \div size

\* new EmbeddingError(message, { batch, totalBatches, textsInBatch })
EmbeddingError(n, i, size) ==
    [code |-> "EMBEDDING_ERROR",
     details |-> [batch |-> BatchNum(i, size),
                  totalBatches |-> TotalBatches(n, size),
                  textsInBatch |-> BatchLen(n, i, size)]]

\* nothing was thrown
NoThrown ==
    [code |-> "none",
     details |-> [batch |-> 0, totalBatches |-> 0, textsInBatch |-> 0]]

Perms(m) == {f \in [1..m -> 1..m] : \A x, y \in 1..m : f[x] = f[y] => x = y}

\* response.data of one batch: the item for the batch's k-th input carries
\* index k - 1 and the vector vs[k]; the items arrive in the order perm.
ResponseData(vs, perm) ==
    [p \in 1..Len(vs) |-> [index |-> perm[p] - 1, embedding |-> vs[perm[p]]]]

RECURSIVE InsertByIndex(_, _)
InsertByIndex(sorted, item) ==
    IF sorted = <<>> THEN <<item>>
    ELSE IF item.index < Head(sorted).index THEN <<item>> \o sorted
    ELSE <<Head(sorted)>> \o InsertByIndex(Tail(sorted), item)

RECURSIVE SortFrom(_, _)
SortFrom(items, k) ==
    IF k = 0 THEN <<>> ELSE InsertByIndex(SortFrom(items, k - 1), items[k])

\* response.data.sort((a, b) => a.index - b.index)
SortByIndexNone(items) == items
SortByIndex(items) == SortFrom(items, Len(items))

\* sorted.map((d) => d.embedding)
Embeddings(items) == [p \in 1..Len(items) |-> items[p].embedding]

\* ---- cosineSimilarity ----

RECURSIVE Dot(_, _, _)
Dot(a, b, i) == IF i > Len(a) THEN 0 ELSE a[i] * b[i] + Dot(a, b, i + 1)

RECURSIVE Gcd(_, _)
Gcd(x, y) == IF y = 0 THEN x ELSE Gcd(y, x % y)

Sign(x) == IF x > 0 THEN 1 ELSE IF x < 0 THEN -1 ELSE 0

\* The real number sgn * sqrt(num / den), num / den in lowest terms: the
\* quotient dot / (sqrt(normA) * sqrt(normB)) in exact arithmetic.
Real(sgn, num, den) ==
    LET g == Gcd(num, den)
    IN  [sgn |-> sgn, num |-> num \div g, den |-> den \div g]

Zero == [sgn |-> 0, num |-> 0, den |-> 1]
One == [sgn |-> 1, num |-> 1, den |-> 1]

\* Math.min(1, Math.max(-1, x))
Clamp(x) == IF x.num > x.den THEN [sgn |-> x.sgn, num |-> 1, den |-> 1] ELSE x

\* cosineSimilarity(vecA, vecB) for vectors of one length
CosineSimilarity(vecA, vecB) ==
    LET dot == Dot(vecA, vecB, 1)
        normA == Dot(vecA, vecA, 1)
        normB == Dot(vecB, vecB, 1)
    IN  IF normA * normB = 0 THEN Zero
        ELSE IF dot = 0 THEN Zero
        ELSE Clamp(Real(Sign(dot), dot * dot, normA * normB))

\* if (vecA.length !== vecB.length) throw new Error(...)
DimensionMismatch(vecA, vecB) == Len(vecA) # Len(vecB)

NoCosRet == [threw |-> FALSE, value |-> Zero]

\* buildSimilarityMatrix: the diagonal is set to 1.0, the upper triangle is
\* computed and mirrored.
SimilarityMatrix(es) ==
    [i \in 1..Len(es) |-> [j \in 1..Len(es) |->
        IF i = j THEN One
        ELSE IF i < j THEN CosineSimilarity(es[i], es[j])
        ELSE CosineSimilarity(es[j], es[i])]]

EmbedCommonInit ==
    /\ epc = "idle"
    /\ ePos = 0
    /\ allEmbeddings = <<>>
    /\ produced = <<>>
    /\ outOfOrder = FALSE
    /\ simMatrix = <<>>
    /\ cosArgs = <<>>
    /\ cosRet = NoCosRet
    /\ eThrown = NoThrown

EmbedInit ==
    /\ eTexts \in TextLists
    /\ eBatchSize \in 1..MaxBatchSize
    /\ EmbedCommonInit

EmbedIdle ==
    /\ eTexts = <<>>
    /\ eBatchSize = 1
    /\ EmbedCommonInit

\* generateEmbeddings(texts): if (texts.length === 0) return []
\* (a run makes this call or the direct cosineSimilarity call below)
GenerateEmbeddings ==
    /\ epc = "idle"
    /\ cosArgs = <<>>
    /\ epc' = IF Len(eTexts) = 0 THEN "returned" ELSE "batch"
    /\ UNCHANGED <<eTexts, eBatchSize, ePos, allEmbeddings, produced, outOfOrder,
                   simMatrix, cosArgs, cosRet, eThrown>>
    /\ UNCHANGED notE

\* One iteration of the batch loop whose request succeeds: the response is
\* sorted by index and its vectors appended; after the last batch the
\* collected vectors are returned.
EmbedBatch ==
    /\ epc = "batch"
    /\ \E vs \in [1..BatchLen(Len(eTexts), ePos, eBatchSize) -> Vecs],
          perm \in Perms(BatchLen(Len(eTexts), ePos, eBatchSize)) :
         /\ allEmbeddings' =
                allEmbeddings \o Embeddings(SortByIndex(ResponseData(vs, perm)))
         /\ produced' = produced \o vs
         /\ outOfOrder' = (outOfOrder \/ \E p \in DOMAIN perm : perm[p] # p)
    /\ ePos' = ePos + eBatchSize
    /\ epc' = IF ePos + eBatchSize < Len(eTexts) THEN "batch" ELSE "returned"
    /\ UNCHANGED <<eTexts, eBatchSize, simMatrix, cosArgs, cosRet, eThrown>>
    /\ UNCHANGED notE

\* The batch's request fails: throw new EmbeddingError(...)
EmbedBatchFails ==
    /\ epc = "batch"
    /\ epc' = "thrown"
    /\ eThrown' = EmbeddingError(Len(eTexts), ePos, eBatchSize)
    /\ UNCHANGED <<eTexts, eBatchSize, ePos, allEmbeddings, produced, outOfOrder,
                   simMatrix, cosArgs, cosRet>>
    /\ UNCHANGED notE

\* runSimilarityPipeline's first step on the returned vectors
BuildSimilarityMatrix ==
    /\ epc = "returned"
    /\ IF \E i, j \in DOMAIN allEmbeddings :
             i < j /\ DimensionMismatch(allEmbeddings[i], allEmbeddings[j])
       THEN /\ epc' = "simThrown"
            /\ UNCHANGED simMatrix
       ELSE /\ epc' = "matrix"
            /\ simMatrix' = SimilarityMatrix(allEmbeddings)
    /\ UNCHANGED <<eTexts, eBatchSize, ePos, allEmbeddings, produced, outOfOrder,
                   cosArgs, cosRet, eThrown>>
    /\ UNCHANGED notE

\* A direct call cosineSimilarity(a, b)
CallCosineSimilarity ==
    /\ epc = "idle"
    /\ cosArgs = <<>>
    /\ \E a, b \in Vecs :
         /\ cosArgs' = <<a, b>>
         /\ cosRet' = IF DimensionMismatch(a, b)
                      THEN [threw |-> TRUE, value |-> Zero]
                      ELSE [threw |-> FALSE, value |-> CosineSimilarity(a, b)]
    /\ UNCHANGED <<eTexts, eBatchSize, epc, ePos, allEmbeddings, produced,
                   outOfOrder, simMatrix, eThrown>>
    /\ UNCHANGED notE

---------------------------------------------------------------------------
(* Similarity engine: clustering and deduplication *)

\* saveIdeas is given 0..MaxTxIdeas ideas
MaxTxIdeas == 3

\* saveIdeas is called again while the ideas table holds at most this many rows
MaxTxRows == 2

\* the similarity pipeline is given 1..MaxSimIdeas ideas
MaxSimIdeas == 4

\* config.similarity.clusterThreshold and dedupThreshold (0.80, 0.85), and
\* the similarities a matrix may hold, all in hundredths
ClusterThreshold == 80
DedupThreshold == 85
SelfSimilarity == 100
Sims == {79, 80, 85}

\* confidence_score values (any scale with ties and strict orders)
Confs == {0, 1}

\* null in duplicateOfIdx / similarityToDuplicate
Null == -1

UpperPairs(n) == {p \in (1..n) \X (1..n) : p[1] < p[2]}

\* A symmetric matrix with 1 on the diagonal, as buildSimilarityMatrix
\* builds it, from its upper triangle.
MatrixOf(n, up) ==
    [i \in 1..n |-> [j \in 1..n |->
        IF i = j THEN SelfSimilarity
        ELSE IF i < j THEN up[<<i, j>>] ELSE up[<<j, i>>]]]

\* matrix[i][j] >= threshold
AnySimilarity(sim, threshold) == TRUE
StrictlyAbove(sim, threshold) == sim > threshold
AtLeast(sim, threshold) == sim >= threshold

\* new UnionFind(n)
NewUnionFind(n) == [parent |-> [i \in 1..n |-> i], rank |-> [i \in 1..n |-> 0]]

\* find(x) with path compression: the root and the updated structure
RECURSIVE Find(_, _)
Find(uf, x) ==
    IF uf.parent[x] # x
    THEN LET r == Find(uf, uf.parent[x])
         IN  [uf |-> [r.uf EXCEPT !.parent[x] = r.root], root |-> r.root]
    ELSE [uf |-> uf, root |-> x]

\* union(x, y) by rank
UnionDirect(uf, x, y) == [uf EXCEPT !.parent[y] = x]
Union(uf, x, y) ==
    LET fx == Find(uf, x)
        fy == Find(fx.uf, y)
        px == fx.root
        py == fy.root
        u == fy.uf
    IN  IF px = py THEN u
        ELSE IF u.rank[px] < u.rank[py] THEN [u EXCEPT !.parent[px] = py]
        ELSE IF u.rank[px] > u.rank[py] THEN [u EXCEPT !.parent[py] = px]
        ELSE [u EXCEPT !.parent[py] = px, !.rank[px] = u.rank[px] + 1]

\* The double loop of clusterIdeas from pair (i, j) on: the union-find
\* structure after it and the pairs union was called for.
RECURSIVE UnionLoop(_, _, _, _, _, _)
UnionLoop(matrix, threshold, n, i, j, acc) ==
    IF i > n THEN acc
    ELSE IF j > n THEN UnionLoop(matrix, threshold, n, i + 1, i + 2, acc)
    ELSE UnionLoop(matrix, threshold, n, i, j + 1,
            IF AtLeast(matrix[i][j], threshold)
            THEN [uf |-> Union(acc.uf, i, j), calls |-> acc.calls \cup {<<i, j>>}]
            ELSE acc)

\* position of root r in the roots met so far (0: not met)
RECURSIVE IndexOf(_, _, _)
IndexOf(roots, r, k) ==
    IF k > Len(roots) THEN 0
    ELSE IF roots[k] = r THEN k ELSE IndexOf(roots, r, k + 1)

\* rootToClusterId / nextId++: roots are numbered 0, 1, ... in encounter order
\* the root's own index is used as the cluster id
RootsAsIds(uf, n, i, roots, ids) == [k \in 1..n |-> Find(uf, k).root - 1]

RECURSIVE NumberRoots(_, _, _, _, _)
NumberRoots(uf, n, i, roots, ids) ==
    IF i > n THEN ids
    ELSE LET f == Find(uf, i)
             seen == IndexOf(roots, f.root, 1)
         IN  IF seen = 0
             THEN NumberRoots(f.uf, n, i + 1, Append(roots, f.root),
                              Append(ids, Len(roots)))
             ELSE NumberRoots(f.uf, n, i + 1, roots, Append(ids, seen - 1))

\* clusterIdeas(matrix, threshold)
ClusterIdeasOf(matrix, threshold) ==
    LET n == Len(matrix)
        done == UnionLoop(matrix, threshold, n, 1, 2,
                          [uf |-> NewUnionFind(n), calls |-> {}])
    IN  [clusterIds |-> NumberRoots(done.uf, n, 1, <<>>, <<>>),
         calls |-> done.calls]

\* clusters: Map cid -> member indices, in insertion order
RECURSIVE FirstSeen(_, _, _)
FirstSeen(cids, i, acc) ==
    IF i > Len(cids) THEN acc
    ELSE FirstSeen(cids, i + 1,
            IF IndexOf(acc, cids[i], 1) = 0 THEN Append(acc, cids[i]) ELSE acc)

RECURSIVE Members(_, _, _)
Members(cids, c, i) ==
    IF i > Len(cids) THEN <<>>
    ELSE (IF cids[i] = c THEN <<i>> ELSE <<>>) \o Members(cids, c, i + 1)

\* a scan that compares each member with the next one only
RECURSIVE PairsInAdjacent(_, _, _)
PairsInAdjacent(members, mi, mj) ==
    IF mi >= Len(members) THEN <<>>
    ELSE <<<<members[mi], members[mi + 1]>>>> \o PairsInAdjacent(members, mi + 1, mi + 2)

\* for (mi ...) for (mj = mi + 1 ...): the pairs of one cluster in scan order
RECURSIVE PairsIn(_, _, _)
PairsIn(members, mi, mj) ==
    IF mi > Len(members) THEN <<>>
    ELSE IF mj > Len(members) THEN PairsIn(members, mi + 1, mi + 2)
    ELSE <<<<members[mi], members[mj]>>>> \o PairsIn(members, mi, mj + 1)

\* every pair deduplicateIdeas looks at, in the order it does
RECURSIVE ScanFrom(_, _, _)
ScanFrom(cids, order, k) ==
    IF k > Len(order) THEN <<>>
    ELSE PairsIn(Members(cids, order[k], 1), 1, 2) \o ScanFrom(cids, order, k + 1)

ScanPairs(cids) == ScanFrom(cids, FirstSeen(cids, 1, <<>>), 1)

\* keepIdx / dropIdx = confI >= confJ ? ...
KeepIdx(confI, confJ, i, j) == IF confI >= confJ THEN i ELSE j
DropIdxStrict(confI, confJ, i, j) == IF confI > confJ THEN j ELSE i
DropIdxSelf(confI, confJ, i, j) == IF confI >= confJ THEN i ELSE j
DropIdxFirst(confI, confJ, i, j) == i
DropIdx(confI, confJ, i, j) == IF confI >= confJ THEN j ELSE i

\* runSimilarityPipeline's summary of the enriched ideas
SummaryOf(flags, cids) ==
    [totalIdeas |-> Len(flags),
     uniqueIdeas |-> Cardinality({i \in DOMAIN flags : ~flags[i]}),
     duplicates |-> Cardinality({i \in DOMAIN flags : flags[i]}),
     clusters |-> Cardinality({cids[i] : i \in DOMAIN cids})]

SimCommonInit ==
    /\ spc = "start"
    /\ clusterIds = <<>>
    /\ unionCalls = {}
    /\ dCursor = 0
    /\ isDuplicate = <<>>
    /\ duplicateOfIdx = <<>>
    /\ similarityToDuplicate = <<>>
    /\ skippedPairs = {}

\* runSimilarityPipeline(ideas) after buildSimilarityMatrix: any symmetric
\* matrix over the ideas and any confidence scores
SimInit ==
    /\ \E n \in 1..MaxSimIdeas :
         /\ sMatrix \in {MatrixOf(n, up) : up \in [UpperPairs(n) -> Sims]}
         /\ sConf \in [1..n -> Confs]
    /\ SimCommonInit

SimIdle ==
    /\ sMatrix = <<>>
    /\ sConf = <<>>
    /\ SimCommonInit

\* const clusterIds = clusterIdeas(matrix)
ClusterIdeas ==
    /\ spc = "start"
    /\ LET r == ClusterIdeasOf(sMatrix, ClusterThreshold)
       IN  /\ clusterIds' = r.clusterIds
           /\ unionCalls' = r.calls
    /\ spc' = "clustered"
    /\ UNCHANGED <<sMatrix, sConf, dCursor, isDuplicate, duplicateOfIdx,
                   similarityToDuplicate, skippedPairs>>
    /\ UNCHANGED notS

\* deduplicateIdeas(ideas, matrix, clusterIds): the three arrays are filled
\* with false / null and the ideas grouped by cluster
DeduplicateIdeas ==
    /\ spc = "clustered"
    /\ isDuplicate' = [i \in 1..Len(sMatrix) |-> FALSE]
    /\ duplicateOfIdx' = [i \in 1..Len(sMatrix) |-> Null]
    /\ similarityToDuplicate' = [i \in 1..Len(sMatrix) |-> Null]
    /\ dCursor' = 1
    /\ spc' = "scan"
    /\ UNCHANGED <<sMatrix, sConf, clusterIds, unionCalls, skippedPairs>>
    /\ UNCHANGED notS

\* One iteration of the inner loop over a cluster's pairs
DedupPair ==
    /\ spc = "scan"
    /\ dCursor <= Len(ScanPairs(clusterIds))
    /\ LET i == ScanPairs(clusterIds)[dCursor][1]
           j == ScanPairs(clusterIds)[dCursor][2]
           keepIdx == KeepIdx(sConf[i], sConf[j], i, j)
           dropIdx == DropIdx(sConf[i], sConf[j], i, j)
       IN  IF isDuplicate[i] \/ isDuplicate[j]
           THEN /\ skippedPairs' = skippedPairs \cup {<<i, j>>}
                /\ UNCHANGED <<isDuplicate, duplicateOfIdx, similarityToDuplicate>>
           ELSE IF AtLeast(sMatrix[i][j], DedupThreshold)
           THEN /\ isDuplicate' = [isDuplicate EXCEPT ![dropIdx] = TRUE]
                /\ duplicateOfIdx' = [duplicateOfIdx EXCEPT ![dropIdx] = keepIdx]
                /\ similarityToDuplicate' =
                       [similarityToDuplicate EXCEPT ![dropIdx] = sMatrix[i][j]]
                /\ UNCHANGED skippedPairs
           ELSE UNCHANGED <<isDuplicate, duplicateOfIdx, similarityToDuplicate,
                            skippedPairs>>
    /\ dCursor' = dCursor + 1
    /\ UNCHANGED <<sMatrix, sConf, spc, clusterIds, unionCalls>>
    /\ UNCHANGED notS

\* The scan is over: the ideas are returned with the three fields added
DedupReturn ==
    /\ spc = "scan"
    /\ dCursor > Len(ScanPairs(clusterIds))
    /\ spc' = "done"
    /\ UNCHANGED <<sMatrix, sConf, clusterIds, unionCalls, dCursor, isDuplicate,
                   duplicateOfIdx, similarityToDuplicate, skippedPairs>>
    /\ UNCHANGED notS

---------------------------------------------------------------------------
(* The store, the worker's job attempts and the repository's API calls *)

\* config.queue.attempts and the worker's maxStalledCount
JobAttempts == 2
MaxStalledCount == 1

\* the titles of the ideas a provider answers with (distinct, as prompted)
ResponseTitles == <<"t1", "t2">>

\* `if (status)`: no status filter
NoStatus == "undefined"

\* listSessions' arguments after validateListQuery
ListLimits == {1, 2}
ListOffsets == {0, 1}
ListStatuses == {NoStatus, "processing", "completed"}

\* gen_random_uuid() of an INSERT ... RETURNING id: an id no row has
NextId(tbl) == Len(tbl) + 1

\* INSERT INTO research_sessions (problem_statement, metadata): status
\* defaults to 'pending', deleted_at to NULL
NewSession == [status |-> "pending", deleted |-> FALSE, updatedAt |-> 0]

\* the trigger set_research_sessions_updated_at: BEFORE UPDATE ... FOR EACH
\* ROW, NEW.updated_at = NOW(); the model's clock counts the row's updates
Touch(row) == [row EXCEPT !.updatedAt = @ + 1]

\* UPDATE research_sessions SET status = $1 WHERE id = $2
SetStatus(tbl, s, to) ==
    IF s \in DOMAIN tbl THEN [tbl EXCEPT ![s] = Touch([@ EXCEPT !.status = to])]
    ELSE tbl

\* a delete that also marks the session failed
SoftDeleteFailed(row) ==
    Touch([row EXCEPT !.deleted = TRUE, !.status = "failed"])

\* UPDATE research_sessions SET deleted_at = NOW()
SoftDelete(row) == Touch([row EXCEPT !.deleted = TRUE])

\* getSessionById: WHERE id = $1 AND deleted_at IS NULL, else NotFoundError
GetSessionById(tbl, s) ==
    IF s \in DOMAIN tbl /\ ~tbl[s].deleted THEN s ELSE Null

\* getIdeaById: WHERE id = $1, else NotFoundError
GetIdeaById(tbl, i) == IF i \in DOMAIN tbl THEN i ELSE Null

\* getSessionIdeas: the idea rows WHERE session_id = $1
GetSessionIdeas(tbl, s) == {i \in DOMAIN tbl : tbl[i].session = s}

\* listSessions' whereClause
Matches(row, st) ==
    ~row.deleted /\ (st = NoStatus \/ row.status = st)

\* the matching ids, ORDER BY created_at DESC
RECURSIVE MatchingDesc(_, _, _)
MatchingDesc(tbl, st, k) ==
    IF k = 0 THEN <<>>
    ELSE (IF Matches(tbl[k], st) THEN <<k>> ELSE <<>>)
             \o MatchingDesc(tbl, st, k - 1)

\* ... LIMIT $1 OFFSET $2
ListPage(tbl, limit, offset, st) ==
    LET all == MatchingDesc(tbl, st, Len(tbl))
    IN  SubSeq(all, offset + 1, Min(offset + limit, Len(all)))

\* SELECT COUNT(*) ... whereClause
CountRows(tbl, st) == Len(MatchingDesc(tbl, st, Len(tbl)))

\* const params = [limit, offset]; if (status) params.push(status)
ListParams(limit, offset, st) ==
    IF st # NoStatus THEN <<limit, offset, st>> ELSE <<limit, offset>>

\* the $n of the data query: $1, $2 and, with a status, $<params.length>
DataPlaceholders(limit, offset, st) ==
    {1, 2} \cup (IF st # NoStatus
                 THEN {Len(ListParams(limit, offset, st))} ELSE {})

\* the $n of the count query, which is given the same whereClause
CountPlaceholders(limit, offset, st) ==
    IF st # NoStatus THEN {Len(ListParams(limit, offset, st))} ELSE {}

\* the count query's parameters: status ? [status] : []
CountParams(st) == IF st # NoStatus THEN <<st>> ELSE <<>>

\* the server accepts a statement when every $n has a parameter
Binds(placeholders, params) == \A n \in placeholders : n <= Len(params)

\* an attempt that works on the session named by the job's metadata
ReuseJobSession(meta, prev) ==
    IF meta # Null
    THEN [pc |-> "created", sessionId |-> meta, responseId |-> Null, lock |-> TRUE]
    ELSE [pc |-> "start", sessionId |-> Null, responseId |-> Null, lock |-> TRUE]

\* an attempt that resumes where the previous attempt had saved its response
ResumeInvocation(meta, prev) ==
    IF prev # <<>> /\ prev[Len(prev)].responseId # Null
    THEN [prev[Len(prev)] EXCEPT !.pc = "responded", !.lock = TRUE]
    ELSE [pc |-> "start", sessionId |-> Null, responseId |-> Null, lock |-> TRUE]

\* the processor calls runResearchPipeline(problemStatement, {...metadata}),
\* which starts from nothing whatever the metadata and the earlier attempts
NewInvocation(meta, prev) ==
    [pc |-> "start", sessionId |-> Null, responseId |-> Null, lock |-> TRUE]

Last == inv[Len(inv)]
Ended(r) == r.pc \in {"done", "thrown"}
Running(r) ==
    r.pc \in {"start", "created", "processing", "responded", "saved", "completed"}

\* attempts of the job that failed while holding the job's lock
FailedAttempts ==
    Cardinality({i \in DOMAIN inv : inv[i].pc = "thrown" /\ inv[i].lock})

\* times the job was taken from an attempt that stopped renewing its lock
StalledCount == Cardinality({i \in DOMAIN inv : ~inv[i].lock})

\* any idea belongs to the session
BelongsToAny(row, s) == TRUE

\* idea.session_id === sessionId
BelongsTo(row, s) == row.session = s

NoDeepen ==
    [pc |-> "idle", sessionId |-> Null, ideaId |-> Null, sessionSeen |-> FALSE,
     ideaSeen |-> FALSE, dbOk |-> TRUE, providerCalls |-> 0, err |-> "none"]

NoList ==
    [pc |-> "idle", limit |-> 0, offset |-> 0, status |-> NoStatus,
     dataDone |-> FALSE, countDone |-> FALSE,
     page |-> <<>>, total |-> Null, err |-> "none"]

\* nothing runs on the store
CallsIdle ==
    /\ inv = <<>>
    /\ wrote = {}
    /\ dCall = NoDeepen
    /\ listCall = NoList

StoreIdle ==
    /\ sessions = <<>>
    /\ responses = <<>>
    /\ ideas = <<>>
    /\ deepenings = <<>>
    /\ jobSession = Null
    /\ CallsIdle

\* a job whose metadata.sessionId names a session created beforehand
WorkerInit ==
    /\ sessions = <<NewSession>>
    /\ responses = <<>>
    /\ ideas = <<>>
    /\ deepenings = <<>>
    /\ jobSession = 1
    /\ CallsIdle

\* the store after one completed run
RepoInit ==
    /\ sessions = <<[status |-> "completed", deleted |-> FALSE, updatedAt |-> 2]>>
    /\ responses = <<[session |-> 1, status |-> "success"]>>
    /\ ideas = [k \in DOMAIN ResponseTitles |->
                   [session |-> 1, response |-> 1, title |-> ResponseTitles[k]]]
    /\ deepenings = <<>>
    /\ jobSession = Null
    /\ CallsIdle

\* the worker takes the job: first, after a failed attempt (attempts), or
\* from an attempt that stalled (maxStalledCount), which may still be running
StartAttempt ==
    /\ \/ /\ inv = <<>>
          /\ inv' = <<NewInvocation(jobSession, inv)>>
       \/ /\ inv # <<>>
          /\ Last.pc = "thrown" /\ Last.lock
          /\ FailedAttempts < JobAttempts
          /\ inv' = Append(inv, NewInvocation(jobSession, inv))
       \/ /\ inv # <<>>
          /\ ~Ended(Last)
          /\ StalledCount < MaxStalledCount
          /\ inv' = Append([inv EXCEPT ![Len(inv)].lock = FALSE],
                           NewInvocation(jobSession, inv))
    /\ UNCHANGED <<sessions, responses, ideas, deepenings, jobSession, wrote,
                   dCall, listCall>>
    /\ UNCHANGED notW

\* POST /research: the controller calls runResearchPipeline itself
RunResearchSync ==
    /\ inv = <<>>
    /\ inv' = <<NewInvocation(Null, inv)>>
    /\ UNCHANGED <<sessions, responses, ideas, deepenings, jobSession, wrote,
                   dCall, listCall>>
    /\ UNCHANGED notW

\* step 1: repo.createSession
RunCreateSession(i) ==
    /\ inv[i].pc = "start"
    /\ sessions' = Append(sessions, NewSession)
    /\ inv' = [inv EXCEPT ![i].pc = "created", ![i].sessionId = NextId(sessions)]
    /\ wrote' = wrote \cup {<<i, NextId(sessions)>>}
    /\ UNCHANGED <<responses, ideas, deepenings, jobSession, dCall, listCall>>
    /\ UNCHANGED notW

\* repo.updateSessionStatus(sessionId, 'processing')
RunMarkProcessing(i) ==
    /\ inv[i].pc = "created"
    /\ sessions' = SetStatus(sessions, inv[i].sessionId, "processing")
    /\ inv' = [inv EXCEPT ![i].pc = "processing"]
    /\ wrote' = wrote \cup {<<i, inv[i].sessionId>>}
    /\ UNCHANGED <<responses, ideas, deepenings, jobSession, dCall, listCall>>
    /\ UNCHANGED notW

\* createSession or the first status write throws, outside the try block
RunFailsEarly(i) ==
    /\ inv[i].pc \in {"start", "created"}
    /\ inv' = [inv EXCEPT ![i].pc = "thrown"]
    /\ UNCHANGED <<sessions, responses, ideas, deepenings, jobSession, wrote,
                   dCall, listCall>>
    /\ UNCHANGED notW

\* steps 2..4: the provider answers and repo.saveLlmResponse stores the answer
RunProviderSucceeds(i) ==
    /\ inv[i].pc = "processing"
    /\ responses' = Append(responses,
                           [session |-> inv[i].sessionId, status |-> "success"])
    /\ inv' = [inv EXCEPT ![i].pc = "responded", ![i].responseId = NextId(responses)]
    /\ wrote' = wrote \cup {<<i, inv[i].sessionId>>}
    /\ UNCHANGED <<sessions, ideas, deepenings, jobSession, dCall, listCall>>
    /\ UNCHANGED notW

\* step 3: no provider answered; the session is marked failed and
\* ALL_PROVIDERS_FAILED thrown (the catch block leaves that error alone)
RunAllProvidersFail(i) ==
    /\ inv[i].pc = "processing"
    /\ sessions' = SetStatus(sessions, inv[i].sessionId, "failed")
    /\ inv' = [inv EXCEPT ![i].pc = "thrown"]
    /\ wrote' = wrote \cup {<<i, inv[i].sessionId>>}
    /\ UNCHANGED <<responses, ideas, deepenings, jobSession, dCall, listCall>>
    /\ UNCHANGED notW

\* steps 5..6: embeddings, similarity, then repo.saveIdeas commits the rows
RunSaveIdeas(i) ==
    /\ inv[i].pc = "responded"
    /\ ideas' = ideas \o [k \in DOMAIN ResponseTitles |->
                             [session |-> inv[i].sessionId,
                              response |-> inv[i].responseId,
                              title |-> ResponseTitles[k]]]
    /\ inv' = [inv EXCEPT ![i].pc = "saved"]
    /\ wrote' = wrote \cup {<<i, inv[i].sessionId>>}
    /\ UNCHANGED <<sessions, responses, deepenings, jobSession, dCall, listCall>>
    /\ UNCHANGED notW

\* steps 7..8: repo.updateSessionStatus(sessionId, 'completed')
RunMarkCompleted(i) ==
    /\ inv[i].pc = "saved"
    /\ sessions' = SetStatus(sessions, inv[i].sessionId, "completed")
    /\ inv' = [inv EXCEPT ![i].pc = "completed"]
    /\ wrote' = wrote \cup {<<i, inv[i].sessionId>>}
    /\ UNCHANGED <<responses, ideas, deepenings, jobSession, dCall, listCall>>
    /\ UNCHANGED notW

\* step 9: repo.getSessionIdeas answers and the pipeline returns
RunReturns(i) ==
    /\ inv[i].pc = "completed"
    /\ inv' = [inv EXCEPT ![i].pc = "done"]
    /\ UNCHANGED <<sessions, responses, ideas, deepenings, jobSession, wrote,
                   dCall, listCall>>
    /\ UNCHANGED notW

\* a step inside the try block throws: the catch block tries to mark the
\* session failed (flipOk: that write works) and rethrows
RunFails(i, flipOk) ==
    /\ inv[i].pc \in {"processing", "responded", "saved", "completed"}
    /\ sessions' = IF flipOk THEN SetStatus(sessions, inv[i].sessionId, "failed")
                   ELSE sessions
    /\ wrote' = IF flipOk THEN wrote \cup {<<i, inv[i].sessionId>>} ELSE wrote
    /\ inv' = [inv EXCEPT ![i].pc = "thrown"]
    /\ UNCHANGED <<responses, ideas, deepenings, jobSession, dCall, listCall>>
    /\ UNCHANGED notW

\* the worker process dies
WorkerCrashes(i) ==
    /\ Running(inv[i])
    /\ inv' = [inv EXCEPT ![i].pc = "crashed"]
    /\ UNCHANGED <<sessions, responses, ideas, deepenings, jobSession, wrote,
                   dCall, listCall>>
    /\ UNCHANGED notW

\* deepenIdea(sessionId, ideaId): Promise.all of getSessionById and
\* getIdeaById (dbOk: the queries work), then the idea.session_id check
DeepenIdea(s, i, dbOk) ==
    /\ dCall.pc = "idle"
    /\ LET seen == GetSessionById(sessions, s) # Null
           found == GetIdeaById(ideas, i) # Null
           call == [NoDeepen EXCEPT !.sessionId = s, !.ideaId = i,
                                    !.sessionSeen = seen, !.ideaSeen = found,
                                    !.dbOk = dbOk]
       IN  dCall' =
               IF ~dbOk THEN [call EXCEPT !.pc = "thrown", !.err = "DATABASE_ERROR"]
               ELSE IF ~seen \/ ~found
                    THEN [call EXCEPT !.pc = "thrown", !.err = "NOT_FOUND"]
               ELSE IF ~BelongsTo(ideas[i], s)
                    THEN [call EXCEPT !.pc = "thrown", !.err = "IDEA_SESSION_MISMATCH"]
               ELSE [call EXCEPT !.pc = "prompted"]
    /\ UNCHANGED <<sessions, responses, ideas, deepenings, jobSession, inv, wrote,
                   listCall>>
    /\ UNCHANGED notW

\* executeDeepeningProvider answers or throws
DeepenProvider(ok) ==
    /\ dCall.pc = "prompted"
    /\ dCall' = IF ok
                THEN [dCall EXCEPT !.pc = "answered", !.providerCalls = @ + 1]
                ELSE [dCall EXCEPT !.pc = "thrown", !.providerCalls = @ + 1,
                                   !.err = "PROVIDER_ERROR"]
    /\ UNCHANGED <<sessions, responses, ideas, deepenings, jobSession, inv, wrote,
                   listCall>>
    /\ UNCHANGED notW

\* repo.saveDeepeningSession: INSERT INTO deepening_sessions
DeepenSave(ok) ==
    /\ dCall.pc = "answered"
    /\ IF ok
       THEN /\ deepenings' = Append(deepenings, [session |-> dCall.sessionId,
                                                 idea |-> dCall.ideaId])
            /\ dCall' = [dCall EXCEPT !.pc = "done"]
       ELSE /\ deepenings' = deepenings
            /\ dCall' = [dCall EXCEPT !.pc = "thrown", !.err = "DATABASE_ERROR"]
    /\ UNCHANGED <<sessions, responses, ideas, jobSession, inv, wrote, listCall>>
    /\ UNCHANGED notW

\* deleteSession(id): one UPDATE ... WHERE id = $1 AND deleted_at IS NULL;
\* no row updated is a NotFoundError
DeleteSession(s) ==
    /\ sessions' = IF GetSessionById(sessions, s) # Null
                   THEN [sessions EXCEPT ![s] = SoftDelete(@)]
                   ELSE sessions
    /\ UNCHANGED <<responses, ideas, deepenings, jobSession, inv, wrote, dCall,
                   listCall>>
    /\ UNCHANGED notW

\* listSessions({limit, offset, status}) issues its two queries together
ListSessions(limit, offset, st) ==
    /\ listCall.pc = "idle"
    /\ listCall' = [NoList EXCEPT !.pc = "querying", !.limit = limit,
                                  !.offset = offset, !.status = st]
    /\ UNCHANGED <<sessions, responses, ideas, deepenings, jobSession, inv, wrote,
                   dCall>>
    /\ UNCHANGED notW

\* the data query is answered; Promise.all resolves once both queries are
ListSessionsData ==
    /\ listCall.pc = "querying"
    /\ ~listCall.dataDone
    /\ listCall' =
           IF Binds(DataPlaceholders(listCall.limit, listCall.offset, listCall.status),
                    ListParams(listCall.limit, listCall.offset, listCall.status))
           THEN [listCall EXCEPT
                    !.pc = IF listCall.countDone THEN "returned" ELSE "querying",
                    !.dataDone = TRUE,
                    !.page = ListPage(sessions, listCall.limit, listCall.offset,
                                      listCall.status)]
           ELSE [listCall EXCEPT !.pc = "thrown", !.err = "DATABASE_ERROR"]
    /\ UNCHANGED <<sessions, responses, ideas, deepenings, jobSession, inv, wrote,
                   dCall>>
    /\ UNCHANGED notW

\* the count query is answered; any error becomes a DatabaseError
ListSessionsCount ==
    /\ listCall.pc = "querying"
    /\ ~listCall.countDone
    /\ listCall' =
           IF Binds(CountPlaceholders(listCall.limit, listCall.offset, listCall.status),
                    CountParams(listCall.status))
           THEN [listCall EXCEPT
                    !.pc = IF listCall.dataDone THEN "returned" ELSE "querying",
                    !.countDone = TRUE,
                    !.total = CountRows(sessions, listCall.status)]
           ELSE [listCall EXCEPT !.pc = "thrown", !.err = "DATABASE_ERROR"]
    /\ UNCHANGED <<sessions, responses, ideas, deepenings, jobSession, inv, wrote,
                   dCall>>
    /\ UNCHANGED notW

---------------------------------------------------------------------------
(* saveIdeas inside withTransaction *)

\* titles an idea of the call may have
TxTitles == {"t1", "t2"}

\* saveIdeas is given 0..MaxTxIdeas ideas
TxInputs == UNION {[1..n -> TxTitles] : n \in 0..MaxTxIdeas}

\* how an INSERT can end: the row is written; the server rejects it and
\* aborts the transaction; the connection is lost, which ends the transaction
InsertOutcomes == {"ok", "error", "lost"}

\* how COMMIT can end: committed; rejected (the transaction is rolled back);
\* committed with the acknowledgement lost
CommitOutcomes == {"ok", "error", "ackLost"}

\* insertedIds.unshift(id)
UnshiftId(ids, id) == <<id>> \o ids

\* insertedIds.push(rows[0].id)
PushId(ids, id) == Append(ids, id)

\* COMMIT on the server: the rows of an open transaction become durable, an
\* aborted transaction is rolled back
Committed(tbl, pending, state) ==
    IF state = "open" THEN tbl \o pending ELSE tbl

\* the finally block is skipped
ReleaseSkipped(n) == n

\* finally { client.release() }: the connection goes back to the pool
Release(n) == n - 1

TxCommonInit ==
    /\ tpc = "idle"
    /\ tI = 0
    /\ insertedIds = <<>>
    /\ tPending = <<>>
    /\ txState = "none"
    /\ checkedOut = 0
    /\ tRet = <<>>
    /\ tErr = "none"
    /\ tFailedAt = 0

\* saveIdeas is not called
TxIdle ==
    /\ tIdeas = <<>>
    /\ tTable = <<>>
    /\ tBefore = <<>>
    /\ TxCommonInit

\* saveIdeas(sessionId, llmResponseId, provider, ideas, clusterIds) on an
\* ideas table that is empty or holds an earlier row
TxInit ==
    /\ tIdeas \in TxInputs
    /\ tTable \in {<<>>, <<[title |-> "t1"]>>}
    /\ tBefore = tTable
    /\ TxCommonInit

\* if (ideas.length === 0) return []; otherwise withTransaction is entered
SaveIdeasCall ==
    /\ tpc = "idle"
    /\ tpc' = IF Len(tIdeas) = 0 THEN "returned" ELSE "connect"
    /\ UNCHANGED <<tIdeas, tI, insertedIds, tPending, tTable, tBefore, txState,
                   checkedOut, tRet, tErr, tFailedAt>>
    /\ UNCHANGED notT

\* const client = await pool.connect(), outside the try block
TxConnect(ok) ==
    /\ tpc = "connect"
    /\ IF ok
       THEN /\ checkedOut' = checkedOut + 1
            /\ tpc' = "begin"
            /\ UNCHANGED tErr
       ELSE /\ tErr' = "CONNECT_ERROR"
            /\ tpc' = "thrown"
            /\ UNCHANGED checkedOut
    /\ UNCHANGED <<tIdeas, tI, insertedIds, tPending, tTable, tBefore, txState,
                   tRet, tFailedAt>>
    /\ UNCHANGED notT

\* await client.query('BEGIN'); a connection whose transaction is still
\* aborted rejects it
TxBegin(ok) ==
    /\ tpc = "begin"
    /\ ok => txState # "aborted"
    /\ IF ok
       THEN /\ txState' = "open"
            /\ tpc' = "insert"
            /\ tI' = 1
            /\ UNCHANGED tErr
       ELSE /\ tErr' = "BEGIN_ERROR"
            /\ tpc' = "rollback"
            /\ UNCHANGED <<txState, tI>>
    /\ UNCHANGED <<tIdeas, insertedIds, tPending, tTable, tBefore, checkedOut,
                   tRet, tFailedAt>>
    /\ UNCHANGED notT

\* the loop body: INSERT INTO ideas ... RETURNING id for ideas[i], then
\* insertedIds.push; after the last idea the callback returns insertedIds
TxInsert(out) ==
    /\ tpc = "insert"
    /\ IF out = "ok"
       THEN /\ tPending' = Append(tPending, [title |-> tIdeas[tI]])
            /\ insertedIds' = PushId(insertedIds, NextId(tTable \o tPending))
            /\ tI' = tI + 1
            /\ tpc' = IF tI = Len(tIdeas) THEN "commit" ELSE "insert"
            /\ UNCHANGED <<txState, tErr, tFailedAt>>
       ELSE /\ txState' = IF out = "error" THEN "aborted" ELSE "closed"
            /\ tPending' = <<>>
            /\ tErr' = "INSERT_ERROR"
            /\ tFailedAt' = tI
            /\ tpc' = "rollback"
            /\ UNCHANGED <<insertedIds, tI>>
    /\ UNCHANGED <<tIdeas, tTable, tBefore, checkedOut, tRet>>
    /\ UNCHANGED notT

\* await client.query('COMMIT'); return result; finally client.release()
TxCommit(out) ==
    /\ tpc = "commit"
    /\ tTable' = IF out = "error" THEN tTable
                 ELSE Committed(tTable, tPending, txState)
    /\ tPending' = <<>>
    /\ IF out = "ok"
       THEN /\ txState' = "none"
            /\ tRet' = insertedIds
            /\ checkedOut' = Release(checkedOut)
            /\ tpc' = "returned"
            /\ UNCHANGED tErr
       ELSE /\ txState' = IF out = "error" THEN "aborted" ELSE "closed"
            /\ tErr' = "COMMIT_ERROR"
            /\ tpc' = "rollback"
            /\ UNCHANGED <<tRet, checkedOut>>
    /\ UNCHANGED <<tIdeas, tI, insertedIds, tBefore, tFailedAt>>
    /\ UNCHANGED notT

\* catch (err): await client.query('ROLLBACK'); throw err; finally
\* client.release(). A ROLLBACK that fails throws its own error instead.
TxRollback(ok) ==
    /\ tpc = "rollback"
    /\ IF ok
       THEN /\ txState' = "none"
            /\ UNCHANGED tErr
       ELSE /\ tErr' = "ROLLBACK_ERROR"
            /\ UNCHANGED txState
    /\ checkedOut' = Release(checkedOut)
    /\ tpc' = "thrown"
    /\ UNCHANGED <<tIdeas, tI, insertedIds, tPending, tTable, tBefore, tRet,
                   tFailedAt>>
    /\ UNCHANGED notT

\* the next saveIdeas call, for the next group of ideas, after the earlier
\* call returned or threw; the pool hands out a clean connection or the one
\* whose ROLLBACK failed
SaveIdeasAgain ==
    /\ tpc \in {"returned", "thrown"}
    /\ Len(tTable) <= MaxTxRows
    /\ tIdeas' \in TxInputs
    /\ tBefore' = tTable
    /\ txState' \in {"none"} \cup ({txState} \cap {"aborted"})
    /\ tpc' = "idle"
    /\ tI' = 0
    /\ insertedIds' = <<>>
    /\ tPending' = <<>>
    /\ tRet' = <<>>
    /\ tErr' = "none"
    /\ tFailedAt' = 0
    /\ UNCHANGED <<tTable, checkedOut>>
    /\ UNCHANGED notT

---------------------------------------------------------------------------
(* parseAndValidateLlmOutput and the payload of the Hugging Face adapters *)

\* a raw text has at most MaxPrefixLen tokens before its body and
\* MaxSuffixLen after it
MaxPrefixLen == 3
MaxSuffixLen == 2

\* JSON values as the schemas see them: a type with a length (strings, in
\* characters), a value (numbers, in hundredths) or an item count (arrays);
\* s is a string's content where an enum reads it, and for an array what
\* its items are
Absent == [t |-> "absent", n |-> 0, s |-> ""]
Str(len) == [t |-> "string", n |-> len, s |-> ""]
Word(w) == [t |-> "string", n |-> 5, s |-> w]
Num(h) == [t |-> "number", n |-> h, s |-> ""]
Arr(count, items) == [t |-> "array", n |-> count, s |-> items]

IdeaFields ==
    {"title", "description", "rationale", "category", "confidence_score",
     "novelty_score", "tags"}

Categories == {"technical", "business", "research", "design", "policy", "other"}

\* an idea every constraint of ideaSchema accepts
ValidIdea ==
    [title |-> Str(20), description |-> Str(60), rationale |-> Str(30),
     category |-> Word("technical"), confidence_score |-> Num(80),
     novelty_score |-> Num(50), tags |-> Arr(2, "strings")]

\* the values a field takes in the inputs: at, inside and outside each bound
\* of the schema, of another type, and missing
FieldValues(field) ==
    CASE field = "title" ->
             {Absent, Str(4), Str(5), Str(500), Str(501), Num(1)}
      [] field = "description" -> {Absent, Str(49), Str(50), Num(1)}
      [] field = "rationale" -> {Absent, Str(19), Str(20)}
      [] field = "category" -> {Absent, Word("bogus"), Word("other"), Num(1)}
      [] field \in {"confidence_score", "novelty_score"} ->
             {Absent, Num(-1), Num(0), Num(100), Num(101), Str(3)}
      [] OTHER ->
             {Absent, Arr(0, "strings"), Arr(1, "strings"), Arr(10, "strings"),
              Arr(11, "strings"), Arr(2, "emptyString"), Arr(2, "number"),
              Str(3)}

Ideas ==
    {ValidIdea} \cup
        UNION {{[ValidIdea EXCEPT ![f] = v] : v \in FieldValues(f)} :
                   f \in IdeaFields}

\* the errors of one constraint: the keyword at the path, when violated
Violation(violated, keyword, path) ==
    IF violated THEN {<<keyword, path>>} ELSE {}

\* a string property with minLength / maxLength (0 for no maxLength)
StringErrors(v, path, minLength, maxLength) ==
    IF v.t = "absent" THEN {}
    ELSE IF v.t # "string" THEN {<<"type", path>>}
    ELSE Violation(v.n < minLength, "minLength", path)
             \cup Violation(maxLength > 0 /\ v.n > maxLength, "maxLength", path)

\* a number property with minimum 0.0 and maximum 1.0
ScoreErrors(v, path) ==
    IF v.t = "absent" THEN {}
    ELSE IF v.t # "number" THEN {<<"type", path>>}
    ELSE Violation(v.n < 0, "minimum", path)
             \cup Violation(v.n > 100, "maximum", path)

\* required: [...] of an object schema
RequiredErrors(obj, fields) ==
    UNION {Violation(obj[f].t = "absent", "required", f) : f \in fields}

\* ideaSchema
IdeaErrors(idea) ==
    RequiredErrors(idea, IdeaFields)
        \cup StringErrors(idea.title, "title", 5, 500)
        \cup StringErrors(idea.description, "description", 50, 0)
        \cup StringErrors(idea.rationale, "rationale", 20, 0)
        \cup (IF idea.category.t = "absent" THEN {}
              ELSE IF idea.category.t # "string" THEN {<<"type", "category">>}
              ELSE Violation(idea.category.s \notin Categories, "enum", "category"))
        \cup ScoreErrors(idea.confidence_score, "confidence_score")
        \cup ScoreErrors(idea.novelty_score, "novelty_score")
        \cup (IF idea.tags.t = "absent" THEN {}
              ELSE IF idea.tags.t # "array" THEN {<<"type", "tags">>}
              ELSE Violation(idea.tags.n < 1, "minItems", "tags")
                       \cup Violation(idea.tags.n > 10, "maxItems", "tags")
                       \cup Violation(idea.tags.n > 0 /\ idea.tags.s = "number",
                                      "type", "tags/items")
                       \cup Violation(idea.tags.n > 0 /\ idea.tags.s = "emptyString",
                                      "minLength", "tags/items"))

DeepeningFields ==
    {"idea_title", "depth_level", "executive_summary", "detailed_analysis",
     "action_items"}

\* no deepening key
NoDeepening ==
    [t |-> "absent", idea_title |-> Absent, depth_level |-> Absent,
     executive_summary |-> Absent, detailed_analysis |-> Absent,
     action_items |-> Absent]

\* a deepening object every constraint of deepeningResponseSchema accepts
ValidDeepening ==
    [t |-> "object", idea_title |-> Str(20), depth_level |-> Num(200),
     executive_summary |-> Str(40), detailed_analysis |-> Str(100),
     action_items |-> Arr(1, "valid")]

Deepenings ==
    {ValidDeepening,
     [ValidDeepening EXCEPT !.t = "string"],
     [ValidDeepening EXCEPT !.idea_title = Absent],
     [ValidDeepening EXCEPT !.depth_level = Num(400)],
     [ValidDeepening EXCEPT !.depth_level = Num(150)],
     [ValidDeepening EXCEPT !.detailed_analysis = Str(99)],
     [ValidDeepening EXCEPT !.action_items = Arr(1, "noPriority")],
     [ValidDeepening EXCEPT !.action_items = Arr(0, "valid")]}

\* a parsed payload: its root's type, its ideas key and its deepening key
Doc(root, ideasType, items, deepening) ==
    [root |-> root, ideas |-> [t |-> ideasType, items |-> items],
     deepening |-> deepening]

NoDoc == Doc("none", "absent", <<>>, NoDeepening)

IdeaDoc(items) == Doc("object", "array", items, NoDeepening)

\* the payloads of the inputs: one or two ideas, ideas lists at and around
\* the schema's bounds, payloads without a usable ideas key, deepenings
Docs ==
    {IdeaDoc(<<i>>) : i \in Ideas}
        \cup {IdeaDoc(<<ValidIdea, i>>) : i \in Ideas}
        \cup {IdeaDoc([k \in 1..n |-> ValidIdea]) : n \in {0, 10, 11}}
        \cup {Doc("object", "absent", <<>>, NoDeepening),
              Doc("object", "string", <<>>, NoDeepening),
              Doc("array", "absent", <<>>, NoDeepening)}
        \cup {Doc("object", "absent", <<>>, d) : d \in Deepenings}
        \cup {Doc("object", "array", <<ValidIdea>>, ValidDeepening)}

\* llmResponseSchema
ResearchErrors(doc) ==
    IF doc.root # "object" THEN {<<"type", "">>}
    ELSE IF doc.ideas.t = "absent" THEN {<<"required", "ideas">>}
    ELSE IF doc.ideas.t # "array" THEN {<<"type", "ideas">>}
    ELSE Violation(Len(doc.ideas.items) < 1, "minItems", "ideas")
             \cup Violation(Len(doc.ideas.items) > 10, "maxItems", "ideas")
             \cup UNION {IdeaErrors(doc.ideas.items[k]) :
                             k \in DOMAIN doc.ideas.items}

\* deepeningResponseSchema
DeepeningErrors(doc) ==
    IF doc.root # "object" THEN {<<"type", "">>}
    ELSE IF doc.deepening.t = "absent" THEN {<<"required", "deepening">>}
    ELSE IF doc.deepening.t # "object" THEN {<<"type", "deepening">>}
    ELSE LET d == doc.deepening
         IN  RequiredErrors(d, DeepeningFields)
                 \cup StringErrors(d.idea_title, "idea_title", 0, 0)
                 \cup (IF d.depth_level.t = "absent" THEN {}
                       ELSE IF d.depth_level.t # "number"
                                   \/ d.depth_level.n % 100 # 0
                       THEN {<<"type", "depth_level">>}
                       ELSE Violation(d.depth_level.n < 100, "minimum", "depth_level")
                                \cup Violation(d.depth_level.n > 300, "maximum",
                                               "depth_level"))
                 \cup StringErrors(d.executive_summary, "executive_summary", 0, 0)
                 \cup StringErrors(d.detailed_analysis, "detailed_analysis", 100, 0)
                 \cup (IF d.action_items.t = "absent" THEN {}
                       ELSE IF d.action_items.t # "array"
                       THEN {<<"type", "action_items">>}
                       ELSE Violation(d.action_items.n > 0
                                          /\ d.action_items.s # "valid",
                                      "required", "action_items/items"))

\* const validator = type === 'deepening' ? validateDeepeningResponse
\*                                        : validateLlmResponse
ValidatorErrors(type, doc) ==
    IF type = "deepening" THEN DeepeningErrors(doc) ELSE ResearchErrors(doc)

\* A raw text is a sequence of tokens: a run of whitespace, a code fence
\* (three backticks), the tag json (in any case), a JSON document, or text
\* that is not JSON.
Tok(kind) == [k |-> kind, doc |-> NoDoc]
DocTok(doc) == [k |-> "doc", doc |-> doc]

RECURSIVE SeqsUpTo(_, _)
SeqsUpTo(S, n) ==
    IF n = 0 THEN {<<>>}
    ELSE SeqsUpTo(S, n - 1)
             \cup {Append(q, x) : q \in SeqsUpTo(S, n - 1), x \in S}

Prefixes == SeqsUpTo({Tok("ws"), Tok("fence"), Tok("tag")}, MaxPrefixLen)
Suffixes == SeqsUpTo({Tok("ws"), Tok("fence")}, MaxSuffixLen)
Bodies == {<<DocTok(d)>> : d \in Docs} \cup {<<Tok("prose")>>}

RawTexts == {p \o b \o s : p \in Prefixes, b \in Bodies, s \in Suffixes}

RECURSIVE DropLeadingWs(_)
DropLeadingWs(toks) ==
    IF toks # <<>> /\ Head(toks).k = "ws" THEN DropLeadingWs(Tail(toks))
    ELSE toks

RECURSIVE DropTrailingWs(_)
DropTrailingWs(toks) ==
    IF toks # <<>> /\ toks[Len(toks)].k = "ws"
    THEN DropTrailingWs(SubSeq(toks, 1, Len(toks) - 1))
    ELSE toks

\* String.prototype.trim
Trim(toks) == DropTrailingWs(DropLeadingWs(toks))

\* the opening fence is removed, a tag after it is left in place
StripOpeningFenceOnly(toks) ==
    IF toks # <<>> /\ Head(toks).k = "fence"
    THEN DropLeadingWs(Tail(toks))
    ELSE toks

\* .replace(/^```(?:json)?\s*/i, '')
StripOpeningFence(toks) ==
    IF toks # <<>> /\ Head(toks).k = "fence"
    THEN LET rest == Tail(toks)
         IN  DropLeadingWs(IF rest # <<>> /\ Head(rest).k = "tag"
                           THEN Tail(rest) ELSE rest)
    ELSE toks

\* .replace(/\s*```$/i, '')
StripClosingFence(toks) ==
    IF toks # <<>> /\ toks[Len(toks)].k = "fence"
    THEN DropTrailingWs(SubSeq(toks, 1, Len(toks) - 1))
    ELSE toks

\* JSON.parse: whitespace around one JSON document is accepted, anything
\* else throws
JsonParse(toks) ==
    LET c == Trim(toks)
    IN  IF Len(c) = 1 /\ c[1].k = "doc"
        THEN [ok |-> TRUE, value |-> c[1].doc]
        ELSE [ok |-> FALSE, value |-> NoDoc]

\* JSON.stringify of an object: one JSON document
JsonStringify(doc) == <<DocTok(doc)>>

NoResult == [valid |-> FALSE, data |-> NoDoc, errors |-> {}]

\* parseAndValidateLlmOutput(rawText, type)
ParseAndValidateLlmOutput(rawText, type) ==
    LET cleaned == Trim(StripClosingFence(StripOpeningFence(Trim(rawText))))
        parsed == JsonParse(cleaned)
    IN  IF ~parsed.ok
        THEN [valid |-> FALSE, data |-> NoDoc,
              errors |-> {<<"JSON.parse failed", "">>}]
        ELSE IF ValidatorErrors(type, parsed.value) # {}
        THEN [valid |-> FALSE, data |-> NoDoc,
              errors |-> ValidatorErrors(type, parsed.value)]
        ELSE [valid |-> TRUE, data |-> parsed.value, errors |-> {}]

\* lengths of the text a Hugging Face model generates (if (!text) throw: the
\* text is not empty)
TextLens == {1, 4, 5, 49, 50, 99, 100, 101, 600}

\* an idea with title and description taken from the text and the five other
\* required fields filled in
HfIdeaComplete(len) ==
    [ValidIdea EXCEPT !.title = Str(Min(len, 100)), !.description = Str(len)]

\* { title: text.substring(0, 100), description: text }
HfIdea(len) ==
    [title |-> Str(Min(len, 100)), description |-> Str(len),
     rationale |-> Absent, category |-> Absent, confidence_score |-> Absent,
     novelty_score |-> Absent, tags |-> Absent]

\* content: JSON.stringify({ ideas: [{ title, description }] })
HfContent(len) == JsonStringify(IdeaDoc(<<HfIdea(len)>>))

ValidateCommonInit ==
    /\ vResult = NoResult
    /\ vText = 0
    /\ vOutcome = NoOutcome

\* no text is validated
ValidateIdle ==
    /\ vpc = "idle"
    /\ vRaw = <<>>
    /\ vType = "research"
    /\ ValidateCommonInit

\* parseAndValidateLlmOutput is about to be called on a raw text, or a
\* Hugging Face adapter is about to be called
ValidateInit ==
    /\ \/ /\ vpc = "input"
          /\ vRaw \in RawTexts
          /\ vType \in {"research", "deepening"}
       \/ /\ vpc = "hf"
          /\ vRaw = <<>>
          /\ vType = "research"
    /\ ValidateCommonInit

ParseAndValidate ==
    /\ vpc = "input"
    /\ vResult' = ParseAndValidateLlmOutput(vRaw, vType)
    /\ vpc' = "returned"
    /\ UNCHANGED <<vRaw, vType, vText, vOutcome>>
    /\ UNCHANGED notV

\* callGeminiRaw / callGrokRaw returns: the backend answered with generated
\* text, inside callGemini / callGrok ('research') or callGeminiDeepening /
\* callGrokDeepening ('deepening')
HfRawReturns(len, type) ==
    /\ vpc = "hf"
    /\ vText' = len
    /\ vType' = type
    /\ vRaw' = HfContent(len)
    /\ vpc' = "hfRaw"
    /\ UNCHANGED <<vResult, vOutcome>>
    /\ UNCHANGED notV

\* const { valid, data, errors } = parseAndValidateLlmOutput(raw.content, type);
\* if (!valid) throw new ParseError(...); otherwise the adapter returns
HfValidates ==
    /\ vpc = "hfRaw"
    /\ vResult' = ParseAndValidateLlmOutput(vRaw, vType)
    /\ vOutcome' = IF ParseAndValidateLlmOutput(vRaw, vType).valid
                   THEN Fulfilled ELSE Rejected("PARSE_ERROR")
    /\ vpc' = "hfDone"
    /\ UNCHANGED <<vRaw, vType, vText>>
    /\ UNCHANGED notV

---------------------------------------------------------------------------
(* The data path of one run: fan-out, flat idea list, similarity, persistence *)

\* the responses of one run hold 1..MaxDataIdeas ideas in all
MaxDataIdeas == 3

\* the adapters of the hybrid registry, in the order the promises are pushed
DataProviders == HybridProviders

\* what an idea says: ideas of one topic have the same embedding, ideas of
\* topics a and b are near-duplicates, b and c are merely related
Topics == {"a", "b", "c"}

IdeaContents == [topic : Topics, conf : Confs]

\* cosine similarity of the embeddings of two ideas, in hundredths
TopicSimilarity(t, u) ==
    IF t = u THEN SelfSimilarity
    ELSE IF {t, u} = {"a", "b"} THEN 85
    ELSE IF {t, u} = {"b", "c"} THEN 80
    ELSE 79

\* a provider call ends rejected or fulfilled with its ideas
NoResponse == [ok |-> FALSE, ideas |-> <<>>]

IdeaLists(most) ==
    UNION {[1..n -> IdeaContents] : n \in 1..Min(most, MaxIdeas)}

\* the responses adapter `name` can settle with, holding at most `most` ideas
ResponsesOf(name, most) ==
    {NoResponse} \cup
        (IF Fulfilled \in PromiseOutcomes(name, TRUE)
         THEN {[ok |-> TRUE, ideas |-> q] : q \in IdeaLists(most)}
         ELSE {})

\* the responses of the adapters i.. of the registry, `most` ideas in all
RECURSIVE ResponseLists(_, _)
ResponseLists(i, most) ==
    IF i > Len(DataProviders) THEN {<<>>}
    ELSE UNION {{<<r>> \o rest :
                     rest \in ResponseLists(i + 1, most - Len(r.ideas))} :
                    r \in ResponsesOf(DataProviders[i], most)}

\* the normalised outcome of the call of adapter i
DataOutcome(resp, i) ==
    [provider |-> DataProviders[i],
     status |-> IF resp[i].ok THEN "fulfilled" ELSE "rejected",
     ideas |-> resp[i].ideas]

\* a promise that has not settled
Unsettled == [provider |-> "", status |-> "pending", ideas |-> <<>>]

\* the outcome is stored at the first free position of the results
SettleAtFirstFree(results, i, outcome) ==
    [results EXCEPT
        ![CHOOSE k \in DOMAIN results :
              /\ results[k] = Unsettled
              /\ \A j \in 1..(k - 1) : results[j] # Unsettled] = outcome]

\* Promise.allSettled stores each outcome at the position its promise has in
\* the array passed in, the position at which the adapter was pushed
SettleAt(results, i, outcome) == [results EXCEPT ![i] = outcome]

\* allIdeas.push({ ...idea, provider, _llmResponseId }) for each idea of one
\* provider result, in the order the adapter returned them
TagIdeas(success, llmResponseId) ==
    [k \in DOMAIN success.ideas |->
        [provider |-> success.provider, llmResponseId |-> llmResponseId,
         topic |-> success.ideas[k].topic, conf |-> success.ideas[k].conf]]

\* step 3: for (const provResult of successes): the response row is saved
\* (the g-th row of the run) and its ideas are appended
RECURSIVE FlatIdeas(_, _)
FlatIdeas(succ, g) ==
    IF g > Len(succ) THEN <<>>
    ELSE TagIdeas(succ[g], g) \o FlatIdeas(succ, g + 1)

\* generateEmbeddings and buildSimilarityMatrix on the flat list
IdeasMatrix(list) ==
    [i \in DOMAIN list |-> [j \in DOMAIN list |->
        IF i = j THEN SelfSimilarity
        ELSE TopicSimilarity(list[i].topic, list[j].topic)]]

\* const key = `${idea.provider}::${idea._llmResponseId}`
GroupKey(idea) == <<idea.provider, idea.llmResponseId>>

\* the keys of byResponse, in insertion order
RECURSIVE GroupKeys(_, _, _)
GroupKeys(list, i, acc) ==
    IF i > Len(list) THEN acc
    ELSE GroupKeys(list, i + 1,
                   IF IndexOf(acc, GroupKey(list[i]), 1) = 0
                   THEN Append(acc, GroupKey(list[i])) ELSE acc)

\* items.map((i) => i.originalIdx) of one group (indices count from 1 here)
RECURSIVE GroupIndices(_, _, _)
GroupIndices(list, key, i) ==
    IF i > Len(list) THEN <<>>
    ELSE (IF GroupKey(list[i]) = key THEN <<i>> ELSE <<>>)
             \o GroupIndices(list, key, i + 1)

\* the cluster ids are taken by position in the group
ClusterSubsetByPosition(indices, cids) == [p \in DOMAIN indices |-> cids[p]]

\* const clusterSubset = indices.map((i) => clusterIds[i])
ClusterSubset(indices, cids) == [p \in DOMAIN indices |-> cids[indices[p]]]

\* the rows saveIdeas inserts for one group into table tbl (idx, the idea's
\* original index, is not a column: it records which idea the row holds)
NewIdeaRows(tbl, key, indices, list, subset, flags) ==
    [p \in DOMAIN indices |->
        [id |-> NextId(tbl) + p - 1, session |-> 1, llmResponseId |-> key[2],
         provider |-> key[1], topic |-> list[indices[p]].topic,
         clusterId |-> subset[p], isDuplicate |-> flags[indices[p]],
         duplicateOf |-> Null, similarityToDup |-> Null, idx |-> indices[p]]]

\* insertedIds.forEach((dbId, pos) => dbIdMap.set(indices[pos], dbId))
SetDbIds(idMap, indices, ids) ==
    [x \in DOMAIN idMap \cup {indices[p] : p \in DOMAIN indices} |->
        IF \E p \in DOMAIN indices : indices[p] = x
        THEN ids[CHOOSE p \in DOMAIN indices : indices[p] = x]
        ELSE idMap[x]]

\* dupUpdates: one update per idea whose _duplicateOfIdx is not null
DupUpdates(idMap, dupOf, simTo) ==
    {[dbId |-> idMap[i], duplicateOfDbId |-> idMap[dupOf[i]],
      similarityToDuplicate |-> simTo[i]] :
         i \in {x \in DOMAIN dupOf : dupOf[x] # Null}}

\* UPDATE ideas SET duplicate_of = $1, similarity_to_dup = $2 WHERE id = $3
ApplyDupUpdates(tbl, updates) ==
    [r \in DOMAIN tbl |->
        IF \E u \in updates : u.dbId = tbl[r].id
        THEN LET u == CHOOSE x \in updates : x.dbId = tbl[r].id
             IN  [tbl[r] EXCEPT !.duplicateOf = u.duplicateOfDbId,
                                !.similarityToDup = u.similarityToDuplicate]
        ELSE tbl[r]]

\* an idea row of an earlier session
EarlierRow ==
    [id |-> 1, session |-> 0, llmResponseId |-> 0, provider |-> "grok",
     topic |-> "a", clusterId |-> 0, isDuplicate |-> FALSE,
     duplicateOf |-> Null, similarityToDup |-> Null, idx |-> 0]

DataCommonInit ==
    /\ dDone = {}
    /\ dLate = FALSE
    /\ allIdeas = <<>>
    /\ dbIdMap = <<>>
    /\ dGroup = 0

\* no run's data path is followed
DataIdle ==
    /\ dpc = "idle"
    /\ dResp = <<>>
    /\ dSettled = <<>>
    /\ dRows = <<>>
    /\ DataCommonInit

\* the promises are pushed; the calls will return 1..MaxDataIdeas ideas
DataInit ==
    /\ dpc = "fanout"
    /\ dResp \in {q \in ResponseLists(1, MaxDataIdeas) :
                     \E i \in DOMAIN q : q[i].ok}
    /\ dSettled = [i \in 1..Len(DataProviders) |-> Unsettled]
    /\ dRows = <<EarlierRow>>
    /\ DataCommonInit

\* the similarity pipeline has not been called
SimWaiting ==
    /\ sMatrix = <<>>
    /\ sConf = <<>>
    /\ spc = "waiting"
    /\ clusterIds = <<>>
    /\ unionCalls = {}
    /\ dCursor = 0
    /\ isDuplicate = <<>>
    /\ duplicateOfIdx = <<>>
    /\ similarityToDuplicate = <<>>
    /\ skippedPairs = {}

\* the promise of adapter i settles, in any order of completion
DataSettle(i) ==
    /\ dpc = "fanout"
    /\ i \notin dDone
    /\ dDone' = dDone \cup {i}
    /\ dSettled' = SettleAt(dSettled, i, DataOutcome(dResp, i))
    /\ dLate' = (dLate \/ \E j \in 1..(i - 1) : j \notin dDone)
    /\ UNCHANGED <<dResp, dpc, allIdeas, dRows, dbIdMap, dGroup>>
    /\ UNCHANGED notD

\* Promise.allSettled resolves; steps 3-5 up to the call of clusterIdeas:
\* the flat list, its embeddings and the similarity matrix
DataCollect ==
    /\ dpc = "fanout"
    /\ AllSettled(dSettled)
    /\ allIdeas' = FlatIdeas(PartitionSuccesses(Unwrap(dSettled)), 1)
    /\ sMatrix' = IdeasMatrix(allIdeas')
    /\ sConf' = [i \in DOMAIN allIdeas' |-> allIdeas'[i].conf]
    /\ spc' = "start"
    /\ dpc' = "similarity"
    /\ UNCHANGED <<clusterIds, unionCalls, dCursor, isDuplicate, duplicateOfIdx,
                   similarityToDuplicate, skippedPairs>>
    /\ UNCHANGED <<dResp, dDone, dSettled, dLate, dRows, dbIdMap, dGroup>>
    /\ UNCHANGED <<avars, pvars, evars, wvars, tvars, vvars>>

\* step 6 begins: the enriched ideas are grouped by response
DataGroupByResponse ==
    /\ dpc = "similarity"
    /\ spc = "done"
    /\ dGroup' = 1
    /\ dpc' = "persist"
    /\ UNCHANGED <<dResp, dDone, dSettled, dLate, allIdeas, dRows, dbIdMap>>
    /\ UNCHANGED notD

\* repo.saveIdeas for one group, then dbIdMap.set(indices[pos], dbId)
DataSaveIdeas ==
    /\ dpc = "persist"
    /\ LET key == GroupKeys(allIdeas, 1, <<>>)[dGroup]
           indices == GroupIndices(allIdeas, key, 1)
           rows == NewIdeaRows(dRows, key, indices, allIdeas,
                               ClusterSubset(indices, clusterIds), isDuplicate)
       IN  /\ dRows' = dRows \o rows
           /\ dbIdMap' = SetDbIds(dbIdMap, indices,
                                   [p \in DOMAIN rows |-> rows[p].id])
    /\ IF dGroup < Len(GroupKeys(allIdeas, 1, <<>>))
       THEN dGroup' = dGroup + 1 /\ dpc' = "persist"
       ELSE dGroup' = 0 /\ dpc' = "dupRefs"
    /\ UNCHANGED <<dResp, dDone, dSettled, dLate, allIdeas>>
    /\ UNCHANGED notD

\* step 7: repo.updateDuplicateReferences(dupUpdates) when there are any;
\* the run then completes
DataUpdateDuplicateReferences ==
    /\ dpc = "dupRefs"
    /\ dRows' = ApplyDupUpdates(dRows,
                    DupUpdates(dbIdMap, duplicateOfIdx, similarityToDuplicate))
    /\ dpc' = "completed"
    /\ UNCHANGED <<dResp, dDone, dSettled, dLate, allIdeas, dbIdMap, dGroup>>
    /\ UNCHANGED notD

---------------------------------------------------------------------------
(* Specifications *)

\* no adapter call is made
AdapterIdle ==
    /\ aKind = "openrouter"
    /\ aKey = TRUE
    /\ apc = "idle"
    /\ attempt = 0
    /\ trace = <<>>
    /\ sleepMs = 0
    /\ lastError = "undefined"
    /\ aOutcome = NoOutcome
    /\ running = {}

Init ==
    /\ PipelineInit
    /\ EmbedIdle
    /\ SimIdle
    /\ StoreIdle
    /\ TxIdle
    /\ ValidateIdle /\ DataIdle
    /\ aKey \in BOOLEAN
    /\ aKind = "openrouter"
    /\ apc = "idle"
    /\ attempt = 0
    /\ trace = <<>>
    /\ sleepMs = 0
    /\ lastError = "undefined"
    /\ aOutcome = NoOutcome
    /\ running = {}

Next ==
    \/ CreateSession
    \/ MarkProcessing
    \/ Dispatch
    \/ \E i \in DOMAIN settled : Settle(i)
    \/ FanoutReturns
    \/ NoSuccess
    \/ SaveLlmResponse
    \/ SaveLlmFailure
    \/ EmbedAndCluster
    \/ SaveIdeas
    \/ UpdateDuplicateReferences
    \/ MarkCompleted
    \/ FetchUniqueAndReturn
    \/ CatchAndRethrow

Spec == Init /\ [][Next]_vars

InitAdapter ==
    /\ AdapterInit /\ PipelineIdle /\ EmbedIdle /\ SimIdle /\ StoreIdle /\ TxIdle
    /\ ValidateIdle /\ DataIdle

NextAdapter ==
    \/ CallAdapter
    \/ \E resp \in Resps : AttemptEnds(resp)
    \/ BackoffElapsed
    \/ \E k \in running : RequestCompletes(k)

SpecAdapter == InitAdapter /\ [][NextAdapter]_vars

InitEmbed ==
    /\ EmbedInit /\ PipelineIdle /\ AdapterIdle /\ SimIdle /\ StoreIdle /\ TxIdle
    /\ ValidateIdle /\ DataIdle

NextEmbed ==
    \/ GenerateEmbeddings
    \/ EmbedBatch
    \/ EmbedBatchFails
    \/ BuildSimilarityMatrix
    \/ CallCosineSimilarity

SpecEmbed == InitEmbed /\ [][NextEmbed]_vars

InitSim ==
    /\ SimInit /\ PipelineIdle /\ AdapterIdle /\ EmbedIdle /\ StoreIdle /\ TxIdle
    /\ ValidateIdle /\ DataIdle

NextSim ==
    \/ ClusterIdeas
    \/ DeduplicateIdeas
    \/ DedupPair
    \/ DedupReturn

SpecSim == InitSim /\ [][NextSim]_vars

InitWorker ==
    /\ WorkerInit /\ AdapterIdle /\ PipelineIdle /\ EmbedIdle /\ SimIdle /\ TxIdle
    /\ ValidateIdle /\ DataIdle

NextWorker ==
    \/ StartAttempt
    \/ \E i \in DOMAIN inv : RunCreateSession(i)
    \/ \E i \in DOMAIN inv : RunMarkProcessing(i)
    \/ \E i \in DOMAIN inv : RunFailsEarly(i)
    \/ \E i \in DOMAIN inv : RunProviderSucceeds(i)
    \/ \E i \in DOMAIN inv : RunAllProvidersFail(i)
    \/ \E i \in DOMAIN inv : RunSaveIdeas(i)
    \/ \E i \in DOMAIN inv : RunMarkCompleted(i)
    \/ \E i \in DOMAIN inv : RunReturns(i)
    \/ \E i \in DOMAIN inv, flipOk \in BOOLEAN : RunFails(i, flipOk)
    \/ \E i \in DOMAIN inv : WorkerCrashes(i)

SpecWorker == InitWorker /\ [][NextWorker]_vars

InitRepo ==
    /\ RepoInit /\ AdapterIdle /\ PipelineIdle /\ EmbedIdle /\ SimIdle /\ TxIdle
    /\ ValidateIdle /\ DataIdle

NextRepo ==
    \/ RunResearchSync
    \/ \E i \in DOMAIN inv : RunCreateSession(i)
    \/ \E i \in DOMAIN inv : RunMarkProcessing(i)
    \/ \E i \in DOMAIN inv : RunFailsEarly(i)
    \/ \E i \in DOMAIN inv : RunProviderSucceeds(i)
    \/ \E i \in DOMAIN inv : RunAllProvidersFail(i)
    \/ \E i \in DOMAIN inv : RunSaveIdeas(i)
    \/ \E i \in DOMAIN inv : RunMarkCompleted(i)
    \/ \E i \in DOMAIN inv : RunReturns(i)
    \/ \E i \in DOMAIN inv, flipOk \in BOOLEAN : RunFails(i, flipOk)
    \/ \E s \in 1..(Len(sessions) + 1), i \in 1..(Len(ideas) + 1), dbOk \in BOOLEAN :
           DeepenIdea(s, i, dbOk)
    \/ \E ok \in BOOLEAN : DeepenProvider(ok)
    \/ \E ok \in BOOLEAN : DeepenSave(ok)
    \/ \E s \in 1..(Len(sessions) + 1) : DeleteSession(s)
    \/ \E limit \in ListLimits, offset \in ListOffsets, st \in ListStatuses :
           ListSessions(limit, offset, st)
    \/ ListSessionsData
    \/ ListSessionsCount

SpecRepo == InitRepo /\ [][NextRepo]_vars

InitTx ==
    /\ TxInit /\ AdapterIdle /\ PipelineIdle /\ EmbedIdle /\ SimIdle /\ StoreIdle
    /\ ValidateIdle /\ DataIdle

NextTx ==
    \/ SaveIdeasCall
    \/ \E ok \in BOOLEAN : TxConnect(ok)
    \/ \E ok \in BOOLEAN : TxBegin(ok)
    \/ \E out \in InsertOutcomes : TxInsert(out)
    \/ \E out \in CommitOutcomes : TxCommit(out)
    \/ \E ok \in BOOLEAN : TxRollback(ok)
    \/ SaveIdeasAgain

SpecTx == InitTx /\ [][NextTx]_vars

\* The validator alone: parseAndValidateLlmOutput on every raw text of the
\* inputs, and inside the Hugging Face adapters on the payload they build
InitValidate ==
    /\ ValidateInit /\ AdapterIdle /\ PipelineIdle /\ EmbedIdle /\ SimIdle
    /\ StoreIdle /\ TxIdle /\ DataIdle

NextValidate ==
    \/ ParseAndValidate
    \/ \E len \in TextLens, type \in {"research", "deepening"} :
           HfRawReturns(len, type)
    \/ HfValidates

SpecValidate == InitValidate /\ [][NextValidate]_vars

\* The data path of one run whose repository and embedding calls succeed:
\* the promises of the fan-out settle in any order, the flat idea list is
\* built, clustered and deduplicated, and the ideas are saved group by group
InitData ==
    /\ DataInit /\ SimWaiting /\ AdapterIdle /\ PipelineIdle /\ EmbedIdle
    /\ StoreIdle /\ TxIdle /\ ValidateIdle

NextData ==
    \/ \E i \in 1..Len(DataProviders) : DataSettle(i)
    \/ DataCollect
    \/ ClusterIdeas
    \/ DeduplicateIdeas
    \/ DedupPair
    \/ DedupReturn
    \/ DataGroupByResponse
    \/ DataSaveIdeas
    \/ DataUpdateDuplicateReferences

SpecData == InitData /\ [][NextData]_vars

---------------------------------------------------------------------------
(* Properties *)

\* executeAllProviders was called and has returned to the pipeline
FanoutDone == Len(settled) > 0 /\ pc # "fanout"

\* the run is over: it returned its result or threw
RunEnded == pc \in {"returned", "thrown"}

\* no repository or embedding call of the run has failed
NoFault == faults = {}

AllRejected(ps) == \A i \in DOMAIN ps : ps[i].status = "rejected"
SomeRejected(ps) == \E i \in DOMAIN ps : ps[i].status = "rejected"
SomeFulfilled(ps) == \E i \in DOMAIN ps : ps[i].status = "fulfilled"

HasRow(st, provider, error) ==
    \E i \in DOMAIN llmRows :
        /\ llmRows[i].session = sessionId
        /\ llmRows[i].provider = provider
        /\ llmRows[i].status = st
        /\ llmRows[i].error = error

LegalStatusSteps ==
    {<<"pending", "processing">>, <<"processing", "completed">>,
     <<"processing", "failed">>}

\* C1: the status column of a session only ever moves pending -> processing ->
\* completed or pending -> processing -> failed (rewriting the value it already
\* holds is no change), in every run, repository and embedding failures
\* included; a completed or failed session keeps its status.
C1_StatusMonotone ==
    /\ Len(statusLog) > 0 => statusLog[1] = "pending"
    /\ \A i \in 1..(Len(statusLog) - 1) :
         \/ statusLog[i + 1] = statusLog[i]
         \/ <<statusLog[i], statusLog[i + 1]>> \in LegalStatusSteps

\* C1: the run that breaks it: the session was marked completed and the
\* catch block then overwrote it with failed.
C1_CompletedThenFailed ==
    /\ pc = "thrown"
    /\ Len(statusLog) = 4
    /\ statusLog[3] = "completed"
    /\ statusLog[4] = "failed"

C3_AllFailedPersistsFailures ==
    (RunEnded /\ FanoutDone /\ AllRejected(settledResults) /\ NoFault) =>
        /\ \A i \in DOMAIN settledResults :
               HasRow("failed", settledResults[i].provider, settledResults[i].code)
        /\ status = "failed"
        /\ err = "ALL_PROVIDERS_FAILED"

C6_FanoutTotality ==
    FanoutDone =>
        /\ Len(settledResults) = Len(Providers(registry))
        /\ \A i \in DOMAIN settledResults :
               settledResults[i].status \in {"fulfilled", "rejected"}
        /\ {settledResults[i].provider : i \in DOMAIN settledResults}
               = {Providers(registry)[i] : i \in DOMAIN Providers(registry)}

C6_Witness ==
    /\ FanoutDone
    /\ Len(settledResults) = 5
    /\ \E i, j \in DOMAIN settledResults :
           /\ settledResults[i].status = "fulfilled"
           /\ settledResults[j].status = "rejected"

\* C7: once executeAllProviders has returned, every promise it dispatched has
\* settled: no return happens while an adapter call is still pending, however
\* the completions interleave and whichever of them are rejections.
C7_ReturnsAfterAllSettled ==
    FanoutDone => \A i \in DOMAIN settled : settled[i].status # "pending"

C7_Witness ==
    /\ FanoutDone
    /\ Len(settled) >= 3
    /\ settled[1].status = "rejected"
    /\ settled[Len(settled)].status = "fulfilled"

\* C8: an adapter call starts at most three attempts, whatever the backend
\* does; once its last attempt is over (and whenever the call is over) it has
\* ended with a result or with a defined error.
C8_AtMostThreeAttempts ==
    /\ Len(trace) <= 3
    /\ attempt <= 2
    /\ (Len(trace) = 3 /\ trace[3].resp # "none") => apc \in {"returned", "thrown"}
    /\ apc = "returned" => aOutcome = Fulfilled
    /\ apc = "thrown" =>
         /\ aOutcome.status = "rejected"
         /\ aOutcome.code \in
                {"PROVIDER_TIMEOUT", "PROVIDER_ERROR", "PARSE_ERROR", "UNKNOWN"}
    /\ apc \in {"idle", "inflight", "sleeping"} => aOutcome = NoOutcome

C8_Witness ==
    /\ Len(trace) = 3
    /\ trace[1].resp = "h500"
    /\ trace[2].resp = "timeout"
    /\ trace[3].resp = "h429"
    /\ apc = "thrown"

\* C9: every attempt after the first follows an attempt that failed by
\* rate limit (429), server error (>= 500) or timeout; after any other
\* failure no further attempt is made.
C9_RetryOnlyRetryable ==
    \A k \in 2..Len(trace) : trace[k - 1].resp \in {"timeout", "h429", "h500"}

\* C10: when attempt k (counted from 0) timed out and attempts remain, the
\* adapter sleeps 2^k * 1000 ms and then starts the next attempt.
C10_TimeoutBackoff ==
    \A k \in 1..Len(trace) :
        (trace[k].resp = "timeout" /\ k - 1 < MaxRetries) =>
            \/ Len(trace) = k /\ apc = "sleeping" /\ sleepMs = Backoff(k - 1)
            \/ Len(trace) > k /\ trace[k + 1].waited = Backoff(k - 1)

\* C11: once an attempt's timeout has been observed, the request of that
\* attempt is no longer running: it was cancelled, not left in the background.
C11_TimeoutCancels ==
    \A k \in 1..Len(trace) : trace[k].resp = "timeout" => (k - 1) \notin running

\* C12: a call that ends on an attempt whose answer failed JSON decoding or
\* schema validation ends with a PARSE_ERROR that carries the provider's raw
\* text, whichever attempt it is (the last one included).
C12_ParseErrorCarriesRaw ==
    (apc = "thrown" /\ Len(trace) > 0 /\ trace[Len(trace)].resp = "badjson") =>
        /\ aOutcome.code = "PARSE_ERROR"
        /\ CarriesRawResponse(aOutcome)

\* C13: generateEmbeddings(texts)[k] is the vector the backend produced for
\* texts[k], for every list and batch size and whatever the order in which a
\* batch's items arrive; the output is as long as the input, and the empty
\* list gives the empty list.
C13_OrderPreserved ==
    /\ epc \in {"batch", "returned", "thrown", "matrix", "simThrown"} =>
         /\ allEmbeddings = produced
         /\ Len(allEmbeddings) = Min(ePos, Len(eTexts))
    /\ epc \in {"returned", "matrix", "simThrown"} =>
         /\ Len(allEmbeddings) = Len(eTexts)
         /\ \A k \in DOMAIN eTexts : allEmbeddings[k] = produced[k]

C13_Witness ==
    /\ epc = "returned"
    /\ Len(eTexts) = 3
    /\ eBatchSize = 2
    /\ outOfOrder
    /\ produced[1] # produced[2]
    /\ allEmbeddings = produced

\* C14: every vector generateEmbeddings returns has the configured dimension
\* (a backend vector of another dimension makes the call fail).
C14_ConfiguredDimension ==
    epc = "returned" =>
        \A k \in DOMAIN allEmbeddings : Len(allEmbeddings[k]) = EmbeddingDimensions

\* C15: cosineSimilarity(a, b) = cosineSimilarity(b, a) for vectors of equal
\* length, and cosineSimilarity(a, a) = 1, the zero vector included.
C15_CosineSymmetry ==
    (cosArgs # <<>> /\ ~cosRet.threw) =>
        /\ cosRet.value = CosineSimilarity(cosArgs[2], cosArgs[1])
        /\ cosArgs[1] = cosArgs[2] => cosRet.value = One

\* the ideas reachable from `set` along edges of similarity >= t
RECURSIVE Reach(_, _, _)
Reach(matrix, t, set) ==
    LET next == set \cup {k \in 1..Len(matrix) :
                              \E m \in set : m # k /\ matrix[m][k] >= t}
    IN  IF next = set THEN set ELSE Reach(matrix, t, next)

SimIdeas == 1..Len(sMatrix)

\* C16: clusterIdeas gives ideas i and j the same cluster id exactly when a
\* path of similarities >= the threshold joins them, for every symmetric
\* matrix.
C16_ClusterIsConnectivity ==
    spc # "start" =>
        \A i, j \in SimIdeas :
            (clusterIds[i] = clusterIds[j])
                <=> (j \in Reach(sMatrix, ClusterThreshold, {i}))

C16_Witness ==
    /\ spc = "clustered"
    /\ Len(sMatrix) = 4
    /\ sMatrix[1][3] < ClusterThreshold
    /\ sMatrix[1][2] < ClusterThreshold
    /\ clusterIds = <<0, 1, 0, 0>>

\* C17: after deduplicateIdeas, every flagged idea's duplicateOfIdx points to
\* an idea that is not flagged itself.
C17_NoDuplicateKeeper ==
    spc = "done" =>
        \A d \in SimIdeas :
            isDuplicate[d] =>
                /\ duplicateOfIdx[d] \in SimIdeas
                /\ ~isDuplicate[duplicateOfIdx[d]]

\* C18: a flagged idea's confidence is <= its keeper's, and when they are
\* equal the keeper is the one with the lower index.
C18_KeeperConfidence ==
    spc \in {"scan", "done"} =>
        \A d \in SimIdeas :
            isDuplicate[d] =>
                /\ duplicateOfIdx[d] \in SimIdeas
                /\ sConf[d] <= sConf[duplicateOfIdx[d]]
                /\ sConf[d] = sConf[duplicateOfIdx[d]] => duplicateOfIdx[d] < d

C18_Witness ==
    /\ spc = "done"
    /\ \E d, e \in SimIdeas :
          /\ isDuplicate[d] /\ isDuplicate[e]
          /\ sConf[d] = sConf[duplicateOfIdx[d]]
          /\ sConf[e] < sConf[duplicateOfIdx[e]]
          /\ e < duplicateOfIdx[e]

\* C19: a flagged idea records the similarity between it and its keeper, and
\* that similarity is >= dedupThreshold; an unflagged idea has null in
\* duplicateOfIdx and similarityToDuplicate.
C19_RecordedSimilarity ==
    spc \in {"scan", "done"} =>
        \A d \in SimIdeas :
            IF isDuplicate[d]
            THEN /\ duplicateOfIdx[d] \in SimIdeas
                 /\ similarityToDuplicate[d] = sMatrix[d][duplicateOfIdx[d]]
                 /\ similarityToDuplicate[d] >= DedupThreshold
            ELSE /\ duplicateOfIdx[d] = Null
                 /\ similarityToDuplicate[d] = Null

C19_Witness ==
    /\ spc = "done"
    /\ \E d, u \in SimIdeas :
          /\ isDuplicate[d]
          /\ duplicateOfIdx[d] > d
          /\ ~isDuplicate[u]
          /\ u # duplicateOfIdx[d]
          /\ clusterIds[u] = clusterIds[d]

\* the idea of the pair i < j with the lower confidence is flagged (either
\* one when the confidences are equal)
LowerConfidenceFlagged(i, j) ==
    /\ sConf[i] < sConf[j] => isDuplicate[i]
    /\ sConf[j] < sConf[i] => isDuplicate[j]
    /\ sConf[i] = sConf[j] => (isDuplicate[i] \/ isDuplicate[j])

\* the idea of the pair i < j with the lower confidence (j on a tie) is
\* flagged as duplicate of the other one
LowerFlaggedOfOther(i, j) ==
    IF sConf[i] < sConf[j]
    THEN isDuplicate[i] /\ duplicateOfIdx[i] = j
    ELSE isDuplicate[j] /\ duplicateOfIdx[j] = i

\* a similarity strictly below a threshold triggers neither union nor flag
\* for that pair
BelowTriggersNothing(i, j) ==
    /\ sMatrix[i][j] < ClusterThreshold => <<i, j>> \notin unionCalls
    /\ sMatrix[i][j] < DedupThreshold =>
         (duplicateOfIdx[i] # j /\ duplicateOfIdx[j] # i)

C21_AllDuplicates ==
    (spc = "done" /\ Len(sMatrix) >= 2
         /\ \A i, j \in SimIdeas : sMatrix[i][j] >= DedupThreshold) =>
        SummaryOf(isDuplicate, clusterIds) =
            [totalIdeas |-> Len(sMatrix), uniqueIdeas |-> 1,
             duplicates |-> Len(sMatrix) - 1, clusters |-> 1]

C21_Witness ==
    /\ spc = "done"
    /\ Len(sMatrix) = 4
    /\ \A i, j \in SimIdeas : sMatrix[i][j] >= DedupThreshold
    /\ sConf = <<0, 1, 0, 1>>
    /\ SummaryOf(isDuplicate, clusterIds).duplicates = 3

\* the idea rows an attempt's saveIdeas committed
SavedIdeas(i) == {r \in DOMAIN ideas : ideas[r].response = inv[i].responseId}

\* C22: when the job's metadata.sessionId names a session created beforehand,
\* every attempt of the job runs the pipeline on that session and no other
\* session is created.
C22_WorkerReusesSession ==
    jobSession # Null =>
        /\ DOMAIN sessions = {jobSession}
        /\ \A w \in wrote : w[2] = jobSession

C24_SingleOwner ==
    \A s \in DOMAIN sessions :
        Cardinality({i \in DOMAIN inv : <<i, s>> \in wrote}) <= 1

C24_Witness ==
    /\ Len(inv) = 2
    /\ ~inv[1].lock /\ inv[1].pc = "saved"
    /\ inv[2].pc = "saved"
    /\ \E s, t \in DOMAIN sessions : <<1, s>> \in wrote /\ <<2, t>> \in wrote

\* the idea deepenIdea was called with belongs to another session
DeepenMismatch ==
    /\ dCall.pc # "idle"
    /\ dCall.ideaSeen
    /\ ideas[dCall.ideaId].session # dCall.sessionId

\* C25: deepenIdea with an idea of a different session fails with
\* IDEA_SESSION_MISMATCH, calls no provider and creates no deepening row.
C25_MismatchRejected ==
    DeepenMismatch =>
        /\ dCall.pc = "thrown"
        /\ dCall.providerCalls = 0
        /\ deepenings = <<>>
        /\ (dCall.sessionSeen /\ dCall.dbOk) => dCall.err = "IDEA_SESSION_MISMATCH"

C25_Witness ==
    /\ DeepenMismatch
    /\ dCall.sessionId = 2 /\ ideas[dCall.ideaId].session = 1
    /\ dCall.err = "IDEA_SESSION_MISMATCH"

\* C26: a deepening record exists only for a completed session.
C26_DeepeningOnlyCompleted ==
    \A k \in DOMAIN deepenings :
        sessions[deepenings[k].session].status = "completed"

\* neither getSessionById nor any listSessions page shows session s
Hidden(s) ==
    /\ GetSessionById(sessions, s) = Null
    /\ \A limit \in ListLimits, offset \in ListOffsets, st \in ListStatuses :
           \A k \in DOMAIN ListPage(sessions, limit, offset, st) :
               ListPage(sessions, limit, offset, st)[k] # s

\* what a soft delete leaves as it was, and what stays readable
SubtreeIntact(s) ==
    /\ sessions'[s].status = sessions[s].status
    /\ \A t \in DOMAIN sessions : t # s => sessions'[t] = sessions[t]
    /\ responses' = responses
    /\ ideas' = ideas
    /\ deepenings' = deepenings
    /\ GetSessionIdeas(ideas', s) = {i \in DOMAIN ideas : ideas[i].session = s}
    /\ \A i \in GetSessionIdeas(ideas', s) : GetIdeaById(ideas', i) = i

\* a deleted session stays deleted and hidden, and no page lists one
StaysHidden ==
    /\ \A s \in DOMAIN sessions :
           sessions[s].deleted => (sessions'[s].deleted /\ Hidden(s)')
    /\ (listCall'.dataDone /\ ~listCall.dataDone) =>
           \A k \in DOMAIN listCall'.page : ~sessions[listCall'.page[k]].deleted

C28_ListSucceeds ==
    listCall.pc \in {"returned", "thrown"} =>
        /\ listCall.pc = "returned"
        /\ listCall.total # Null

\* C29: when a step fails after the session was marked processing, the
\* pipeline attempts to flip the session to failed (unless the error is
\* ALL_PROVIDERS_FAILED) and rejects with the original error, also when
\* that status write fails; only a failed saveLlmFailure, which is logged,
\* lets the run go on.
C29_OriginalErrorPropagates ==
    /\ (pc = "thrown" /\ \E k \in DOMAIN statusLog : statusLog[k] = "processing") =>
           /\ rejected = err
           /\ err # "ALL_PROVIDERS_FAILED" =>
                  \/ statusLog[Len(statusLog)] = "failed"
                  \/ "markFailedInCatch" \in faults
    /\ pc = "returned" => faults \subseteq {"saveLlmFailure"}

C29_Witness ==
    /\ pc = "thrown"
    /\ err = "EMBEDDING_ERROR"
    /\ "markFailedInCatch" \in faults
    /\ status = "processing"
    /\ rejected = "EMBEDDING_ERROR"

\* C30: saveIdeas inserts the ideas in input order inside one transaction
\* and returns ids[k] for ideas[k]; when an insert of the call fails, the
\* transaction is rolled back and none of the call's ideas remain.
C30_OrderedAndAtomic ==
    /\ tpc = "returned" =>
           /\ Len(tRet) = Len(tIdeas)
           /\ Len(tTable) = Len(tBefore) + Len(tIdeas)
           /\ \A k \in DOMAIN tIdeas :
                  /\ tRet[k] = Len(tBefore) + k
                  /\ tTable[tRet[k]].title = tIdeas[k]
           /\ \A k \in DOMAIN tBefore : tTable[k] = tBefore[k]
    /\ tFailedAt # 0 => tTable = tBefore
    /\ (tFailedAt # 0 /\ tpc \notin {"rollback"}) => (tpc = "thrown" /\ tPending = <<>>)

C30_Witness ==
    /\ tpc = "thrown"
    /\ Len(tIdeas) = 3
    /\ tFailedAt = 3
    /\ Len(insertedIds) = 2
    /\ tBefore # <<>>

\* C31: every withTransaction call releases the connection it acquired
\* exactly once on every exit path: the connection is held from the connect
\* to the COMMIT or ROLLBACK and by no call that has returned or thrown, so
\* after any sequence of calls no connection is checked out.
C31_ConnectionReleased ==
    /\ checkedOut \in {0, 1}
    /\ tpc \in {"idle", "connect", "returned", "thrown"} => checkedOut = 0
    /\ tpc \in {"begin", "insert", "commit", "rollback"} => checkedOut = 1

C31_Witness ==
    /\ tpc = "thrown"
    /\ tErr = "ROLLBACK_ERROR"
    /\ Len(tBefore) >= 2
    /\ checkedOut = 0

\* C35: clusterIdeas assigns every idea a cluster id; the ids used are
\* exactly 0..K-1, idea 0 has id 0 and the first idea of each new cluster
\* gets the smallest id not used before it.
C35_ContiguousIds ==
    spc # "start" =>
        /\ DOMAIN clusterIds = SimIdeas
        /\ LET used == {clusterIds[i] : i \in SimIdeas}
           IN  used = 0..(Cardinality(used) - 1)
        /\ clusterIds[1] = 0
        /\ \A i \in SimIdeas :
               LET before == {clusterIds[j] : j \in 1..(i - 1)}
               IN  clusterIds[i] \notin before =>
                       clusterIds[i] = Cardinality(before)

C35_Witness ==
    /\ spc = "clustered"
    /\ clusterIds = <<0, 0, 1, 1>>

\* the unflagged idea that following duplicateOfIdx from idea d reaches
\* within the given number of steps, or Null
RECURSIVE FollowDuplicateOf(_, _)
FollowDuplicateOf(d, steps) ==
    IF ~isDuplicate[d] THEN d
    ELSE IF steps = 0 THEN Null
    ELSE FollowDuplicateOf(duplicateOfIdx[d], steps - 1)

\* C37: the duplicate-of relation of deduplicateIdeas is acyclic: no idea
\* is a duplicate of itself, following duplicateOfIdx from any idea reaches
\* an unflagged idea, and an idea that is flagged is never flagged again.
C37_Acyclic ==
    [][spc' \in {"scan", "done"} =>
           \A d \in 1..Len(sMatrix') :
               /\ isDuplicate'[d] => duplicateOfIdx'[d] # d
               /\ FollowDuplicateOf(d, Len(sMatrix))' # Null
               /\ (spc = "scan" /\ isDuplicate[d]) =>
                      /\ isDuplicate'[d]
                      /\ duplicateOfIdx'[d] = duplicateOfIdx[d]]_vars

C37_Witness ==
    /\ spc = "done"
    /\ \E d \in SimIdeas :
          /\ isDuplicate[d]
          /\ isDuplicate[duplicateOfIdx[d]]
          /\ FollowDuplicateOf(d, 2) \notin {Null, d, duplicateOfIdx[d]}

\* the ideas of cluster c
ClusterOf(c) == {i \in SimIdeas : clusterIds[i] = c}

\* the idea of cluster c with the highest confidence score, the lowest index
\* among equals
BestOf(c) ==
    CHOOSE b \in ClusterOf(c) :
        \A o \in ClusterOf(c) :
            sConf[o] < sConf[b] \/ (sConf[o] = sConf[b] /\ b <= o)

\* C38: in every cluster the idea with the highest confidence score (lowest
\* index among equals) is never flagged, and when deduplicateIdeas is done
\* no two unflagged ideas of one cluster have similarity >= dedupThreshold.
C38_BestKept ==
    spc \in {"scan", "done"} =>
        /\ \A i \in SimIdeas : ~isDuplicate[BestOf(clusterIds[i])]
        /\ spc = "done" =>
               \A i, j \in SimIdeas :
                   (i < j /\ clusterIds[i] = clusterIds[j]
                        /\ ~isDuplicate[i] /\ ~isDuplicate[j]) =>
                       sMatrix[i][j] < DedupThreshold

C38_Witness ==
    /\ spc = "done"
    /\ clusterIds = <<0, 0, 0, 0>>
    /\ sConf = <<0, 1, 1, 0>>
    /\ isDuplicate = <<TRUE, FALSE, TRUE, FALSE>>
    /\ sMatrix[2][4] < DedupThreshold

\* the details of the thrown error describe the failed batch: its number
\* (under the given key) is one more than the number of batches answered,
\* with the number of batches of the call and of texts in the failed batch
DescribesFailedBatch(details, numberKey) ==
    /\ DOMAIN details = {numberKey, "totalBatches", "textsInBatch"}
    /\ LET n == Len(eTexts)
           b == details[numberKey]
           total == details.totalBatches
       IN  /\ b \in 1..total
           /\ total * eBatchSize >= n
           /\ (total - 1) * eBatchSize < n
           /\ Len(produced) = (b - 1) * eBatchSize
           /\ details.textsInBatch =
                  IF b < total THEN eBatchSize ELSE n - (total - 1) * eBatchSize

\* a call that threw stays thrown: it returns no vectors and issues no
\* further batch
NothingAfterThrow ==
    epc = "thrown" => UNCHANGED <<epc, produced, allEmbeddings, eThrown>>

\* C36 as stated: if any embedding batch fails, generateEmbeddings fails as
\* a whole with EMBEDDING_ERROR carrying {batchNumber, totalBatches,
\* textsInBatch}; no partial vector list is returned and no later batch is
\* issued.
C36_CarriesBatchNumber ==
    [][/\ epc' = "thrown" =>
              /\ eThrown'.code = "EMBEDDING_ERROR"
              /\ DescribesFailedBatch(eThrown.details, "batchNumber")'
       /\ NothingAfterThrow]_vars

\* C36 amended: the same, with the failed batch's number carried under the
\* key batch: {batch, totalBatches, textsInBatch}.
C36_FailsAsWhole ==
    [][/\ epc' = "thrown" =>
              /\ eThrown'.code = "EMBEDDING_ERROR"
              /\ DescribesFailedBatch(eThrown.details, "batch")'
       /\ NothingAfterThrow]_vars

C36_Witness ==
    /\ epc = "thrown"
    /\ Len(eTexts) = 3
    /\ eBatchSize = 2
    /\ Len(allEmbeddings) = 2
    /\ eThrown.details = [batch |-> 2, totalBatches |-> 2, textsInBatch |-> 1]

\* the run has not got past the embedding and similarity steps
BeforeIdeasStep ==
    pc \in {"start", "created", "dispatch", "fanout", "noSuccess",
            "saveResponses", "saveFailures", "embed"}

WrappedForms(body) ==
    {body,
     <<Tok("ws")>> \o body, body \o <<Tok("ws")>>,
     <<Tok("ws")>> \o body \o <<Tok("ws")>>}
        \cup {<<Tok("fence")>> \o tag \o ws1 \o body \o ws2 \o <<Tok("fence")>> :
                  tag \in {<<>>, <<Tok("tag")>>},
                  ws1 \in {<<>>, <<Tok("ws")>>},
                  ws2 \in {<<>>, <<Tok("ws")>>}}

\* a string of minLength..maxLength characters
IsString(v, minLength, maxLength) ==
    v.t = "string" /\ v.n >= minLength /\ v.n <= maxLength

\* a number in 0.0..1.0
IsScore(v) == v.t = "number" /\ v.n \in 0..100

\* the research schema, read as a predicate: an object whose ideas are 1..10
\* objects with the seven required fields within their bounds
SchemaValid(doc) ==
    /\ doc.root = "object"
    /\ doc.ideas.t = "array"
    /\ Len(doc.ideas.items) \in 1..10
    /\ \A k \in DOMAIN doc.ideas.items :
           LET idea == doc.ideas.items[k]
           IN  /\ IsString(idea.title, 5, 500)
               /\ idea.description.t = "string" /\ idea.description.n >= 50
               /\ idea.rationale.t = "string" /\ idea.rationale.n >= 20
               /\ idea.category.t = "string" /\ idea.category.s \in Categories
               /\ IsScore(idea.confidence_score)
               /\ IsScore(idea.novelty_score)
               /\ idea.tags.t = "array" /\ idea.tags.n \in 1..10
               /\ idea.tags.s = "strings"

\* C32: parseAndValidateLlmOutput accepts a schema-valid research payload
\* bare, surrounded by whitespace, or wrapped in one code fence with an
\* optional json tag, and returns the same parsed value in the three cases;
\* a payload that is not valid JSON or violates the schema yields valid =
\* false with a non-empty error list.
C32_AcceptsWrappedPayload ==
    (vpc = "returned" /\ vType = "research") =>
        \A body \in Bodies :
            vRaw \in WrappedForms(body) =>
                IF body[1].k = "doc" /\ SchemaValid(body[1].doc)
                THEN vResult = [valid |-> TRUE, data |-> body[1].doc, errors |-> {}]
                ELSE /\ ~vResult.valid
                     /\ vResult.data = NoDoc
                     /\ vResult.errors # {}

C32_Witness ==
    /\ vpc = "returned"
    /\ vType = "research"
    /\ vRaw = <<Tok("fence"), Tok("tag"), Tok("ws"),
                DocTok(IdeaDoc(<<ValidIdea, [ValidIdea EXCEPT !.title = Str(500)]>>)),
                Tok("ws"), Tok("fence")>>
    /\ vResult.valid
    /\ Len(vResult.data.ideas.items) = 2

\* C40: every call of a Hugging Face backed adapter whose backend returns
\* generated text ends as a rejected outcome with PARSE_ERROR: the payload
\* built from the text holds title and description only, and the research
\* and the deepening schema reject it for every text.
C40_HfAlwaysParseError ==
    vpc = "hfDone" =>
        /\ vOutcome = Rejected("PARSE_ERROR")
        /\ ~vResult.valid
        /\ vType = "research" =>
               {<<"required", f>> :
                    f \in IdeaFields \ {"title", "description"}}
                   \subseteq vResult.errors
        /\ vType = "deepening" => vResult.errors = {<<"required", "deepening">>}

C40_Witness ==
    /\ vpc = "hfDone"
    /\ vText = 600
    /\ vType = "research"
    /\ vOutcome = Rejected("PARSE_ERROR")
    /\ <<"minLength", "title">> \notin vResult.errors
    /\ <<"minLength", "description">> \notin vResult.errors

\* the ideas returned by the adapters pushed ahead of adapter i
RECURSIVE IdeasBefore(_, _)
IdeasBefore(resp, i) ==
    IF i <= 1 THEN 0
    ELSE IdeasBefore(resp, i - 1) + Len(resp[i - 1].ideas)

\* the list in which the k-th idea of the adapter at registry position i
\* stands behind the ideas of every adapter ahead of it, whatever the order
\* in which the calls completed
InRegistryOrder(list, resp) ==
    /\ Len(list) = IdeasBefore(resp, Len(resp) + 1)
    /\ \A i \in DOMAIN resp : \A k \in DOMAIN resp[i].ideas :
           LET idea == list[IdeasBefore(resp, i) + k]
           IN  /\ idea.provider = DataProviders[i]
               /\ idea.llmResponseId =
                      Cardinality({j \in 1..i : resp[j].ok})
               /\ idea.topic = resp[i].ideas[k].topic
               /\ idea.conf = resp[i].ideas[k].conf

\* the flags deduplicateIdeas computes from a matrix, the confidence scores
\* and the cluster ids, as a fold over the pairs of the clusters
RECURSIVE DedupFlags(_, _, _, _, _)
DedupFlags(matrix, conf, pairs, k, flags) ==
    IF k > Len(pairs) THEN flags
    ELSE LET i == pairs[k][1]
             j == pairs[k][2]
         IN  DedupFlags(matrix, conf, pairs, k + 1,
                 IF ~flags[i] /\ ~flags[j] /\ matrix[i][j] >= DedupThreshold
                 THEN [flags EXCEPT ![IF conf[i] >= conf[j] THEN j ELSE i] = TRUE]
                 ELSE flags)

\* C34: the flat idea list, every originalIdx, the cluster ids and the
\* duplicate flags of a run are those of the responses taken in the
\* configured adapter order, each response's ideas in returned order: they
\* are a function of the responses alone, the same for every order in which
\* the concurrent provider calls complete.
C34_CompletionOrderIrrelevant ==
    /\ dpc \notin {"idle", "fanout"} =>
           /\ InRegistryOrder(allIdeas, dResp)
           /\ sMatrix = IdeasMatrix(allIdeas)
    /\ dpc \in {"persist", "dupRefs", "completed"} =>
           /\ clusterIds = ClusterIdeasOf(sMatrix, ClusterThreshold).clusterIds
           /\ isDuplicate =
                  DedupFlags(sMatrix, sConf, ScanPairs(clusterIds), 1,
                             [i \in DOMAIN allIdeas |-> FALSE])

C34_Witness ==
    /\ dpc = "completed"
    /\ dLate
    /\ dResp[1].ok /\ Len(dResp[1].ideas) = 2
    /\ dResp[1].ideas[1] # dResp[1].ideas[2]
    /\ \E i \in 2..Len(dResp) : dResp[i].ok
    /\ \E i \in DOMAIN isDuplicate : isDuplicate[i]
    /\ Cardinality({clusterIds[i] : i \in DOMAIN clusterIds}) = 2

\* the rows of the run's session
RunRows == {r \in DOMAIN dRows : dRows[r].session = 1}

\* C33: after a run completes, the row of every idea carries the cluster id
\* and the duplicate flag computed for its original index; the duplicate_of
\* of a flagged idea is the stored id of the idea at its duplicateOfIdx, a
\* row of the same session; unflagged ideas keep duplicate_of null; and this
\* holds however the ideas were grouped by provider response for insertion.
C33_RowsCarryOriginalIndex ==
    dpc = "completed" =>
        /\ Cardinality(RunRows) = Len(allIdeas)
        /\ dRows[1] = EarlierRow
        /\ \A i \in DOMAIN allIdeas :
               \E r \in RunRows :
                   /\ dRows[r].idx = i
                   /\ dRows[r].topic = allIdeas[i].topic
                   /\ dRows[r].llmResponseId = allIdeas[i].llmResponseId
                   /\ dRows[r].clusterId = clusterIds[i]
                   /\ dRows[r].isDuplicate = isDuplicate[i]
                   /\ IF isDuplicate[i]
                      THEN \E k \in RunRows :
                               /\ dRows[k].idx = duplicateOfIdx[i]
                               /\ dRows[r].duplicateOf = dRows[k].id
                               /\ dRows[r].similarityToDup =
                                      similarityToDuplicate[i]
                      ELSE dRows[r].duplicateOf = Null

C33_Witness ==
    /\ dpc = "completed"
    /\ Len(GroupKeys(allIdeas, 1, <<>>)) >= 2
    /\ \E i \in DOMAIN allIdeas :
           /\ isDuplicate[i]
           /\ allIdeas[i].llmResponseId # allIdeas[duplicateOfIdx[i]].llmResponseId
           /\ \E r \in RunRows :
                  dRows[r].idx = i /\ dRows[r].duplicateOf \notin {Null, duplicateOfIdx[i]}
    /\ \E i \in DOMAIN allIdeas : clusterIds[i] # 0

=============================================================================
